---- MODULE Spec2Model ----
(***************************************************************************)
(* Model of the code-change proposal pipeline of the code assistant:       *)
(* ChatInterface (auto_create_files, propose_change, approve_proposal,     *)
(* reject_proposal, process_user_input), FileEditor (create_file,          *)
(* write_file, _create_backup, read_file) and GitManager (commit_changes). *)
(*                                                                         *)
(* Four specifications share the variables: Spec, the chat loop with its   *)
(* proposals; GitSpec, the calls on GitManager; EditorSpec, the calls on   *)
(* FileEditor; ScanSpec, parse_code_blocks and the resolution of           *)
(* filenames on response texts held as characters.                         *)
(*                                                                         *)
(* File names are strings whose characters Chars lists, so that the        *)
(* filename validator is computed on the characters; file contents are     *)
(* opaque strings.                                                         *)
(***************************************************************************)
EXTENDS Integers, Sequences, FiniteSets, TLC

\* ------------------------------------------------------------------ bounds
\* largest number of code blocks in one response
MaxBlocks == 2
\* largest number of chat messages handled in one session
MaxResponses == 1
\* largest number of commits in the history of the repository
MaxCommits == 3
\* largest number of backup files, and of clock readings, in a session of
\* FileEditor calls
MaxBackups == 2
\* largest number of lines of a response text built from fences and code
MaxLines == 5
\* largest number of inner blocks in a nested markdown block
MaxInner == 2
\* largest number of characters a name has besides its run of letters
MaxShort == 2
\* largest number of prompts of run answered in one session
MaxEvents == 4
\* largest number of lines of a text scanned one pass at a time
MaxWalkLines == 3
\* largest number of chat messages in a session that can approve and undo
MaxTurns == 2

\* ------------------------------------------------------------- vocabulary
\* file names; Chars gives the characters of each
README_MD == "README.md"
MAIN_PY == "main.py"
\* a name the validator rejects (it contains a space)
SPACED_NAME == "my f.py"
\* Python's None / empty string for a filename (both are falsy)
None == ""
Chars == [name \in {README_MD, MAIN_PY, SPACED_NAME, None} |->
            CASE name = README_MD -> <<"R", "E", "A", "D", "M", "E", ".", "m", "d">>
              [] name = MAIN_PY -> <<"m", "a", "i", "n", ".", "p", "y">>
              [] name = SPACED_NAME -> <<"m", "y", " ", "f", ".", "p", "y">>
              [] name = None -> <<>>]
\* the files of the project the model follows
Paths == {README_MD, MAIN_PY}
\* marker for a path with no file on disk
NoFile == "<absent>"
\* code bodies and file contents ("" is an empty body or file)
Codes == {"", "x", "y"}
\* the working trees a session can start with: each file absent or present,
\* main.py possibly empty
InitialProjects == {f \in [Paths -> {NoFile, "", "x"}] : f[README_MD] # ""}
\* what a scanned block can be: blocks that carry a filename (valid or not,
\* with a body or without), and blocks that carry none
Blocks == {[filename |-> README_MD, code |-> "x", language |-> "markdown"],
           [filename |-> MAIN_PY, code |-> "x", language |-> "python"],
           [filename |-> MAIN_PY, code |-> "y", language |-> "python"],
           [filename |-> MAIN_PY, code |-> "", language |-> "python"],
           [filename |-> SPACED_NAME, code |-> "x", language |-> "python"],
           [filename |-> None, code |-> "x", language |-> "python"],
           [filename |-> None, code |-> "x", language |-> "markdown"]}
\* the environments of a session, <<unwritable, backup_ok, git_ok,
\* coarse_clock>>: all well, a read-only main.py, a backup directory that
\* cannot be written, a git whose calls raise, a clock that does not advance
\* between two calls of datetime.now() that follow each other at once
Environments == {<<{}, TRUE, TRUE, FALSE>>, <<{MAIN_PY}, TRUE, TRUE, FALSE>>,
                 <<{}, FALSE, TRUE, FALSE>>, <<{}, TRUE, FALSE, FALSE>>,
                 <<{}, TRUE, TRUE, TRUE>>}
\* (mentioned_files, "readme" in user_message.lower()) pairs of a user message
Mentions == {[files |-> <<>>, readme |-> FALSE],
             [files |-> <<>>, readme |-> TRUE],
             [files |-> <<MAIN_PY>>, readme |-> FALSE]}

VARIABLES
    fs,                 \* working tree: path -> content or NoFile
    backups,            \* backup store: the backup files [path, stamp, content], oldest first
    repo,               \* git repository: [history, index]
    unwritable,         \* paths that cannot be opened for writing (permissions)
    backup_ok,          \* whether the backup directory can be written
    git_ok,             \* whether the git calls that follow the staging succeed
    coarse_clock,       \* whether datetime.now() can give one reading twice in a row
    now,                \* the clock: advanced between calls that are apart in time
    editor_call,        \* the last call made on the FileEditor directly
    pending_proposals,  \* ChatInterface.pending_proposals
    pc,                 \* position of the chat loop
    responses,          \* number of chat messages handled so far
    successful_files,   \* local of approve_proposal
    failed_files,       \* local of approve_proposal
    idx,                \* loop position of approve_proposal (1-based)
    ret,                \* value returned by approve_proposal ("none" if not called)
    oplog,              \* file operations issued by the running approve_proposal
    commit_log,         \* commit_changes calls issued by the running approve_proposal
    display_log,        \* proposals displayed by propose_change while handling the message
    read_log,           \* paths auto_create_files read through get_file_content
    printed,            \* the line the running handler printed about its outcome
    git_call,           \* the GitManager call made last, with the state it started from
    response,           \* the lines of the response text being handled
    scan_pc,            \* position of the handling of that response
    parsed_blocks,      \* what parse_code_blocks returned for it
    user_message,       \* the mentions of the message the response answers
    targets,            \* the filename auto_create_files settled on, per block
    filename_arg,       \* the characters of the name given to _is_valid_filename
    valid_ret,          \* what _is_valid_filename returned for it ("none" if not called)
    eof_count,          \* ChatInterface.eof_count
    run_pc,             \* position of the loop of run
    events,             \* what the prompts of run met so far, oldest first
    scan_i,             \* local i of parse_code_blocks
    scan_j,             \* local j of parse_code_blocks
    scan_start,         \* local content_start of parse_code_blocks
    scan_level,         \* local nesting_level of parse_code_blocks
    last_approval       \* what the last approve_proposal that applied a batch
                        \* started from and did (kept for the properties only)

vars == <<fs, backups, repo, unwritable, backup_ok, git_ok, coarse_clock, now,
          editor_call,
          pending_proposals, pc, responses,
          successful_files, failed_files, idx, ret, oplog, commit_log, display_log,
          read_log, printed, git_call,
          response, scan_pc, parsed_blocks, user_message, targets,
          filename_arg, valid_ret, eof_count, run_pc, events,
          scan_i, scan_j, scan_start, scan_level, last_approval>>

scan_vars == <<response, scan_pc, parsed_blocks, user_message, targets>>

env == <<unwritable, backup_ok, git_ok, coarse_clock>>

name_vars == <<filename_arg, valid_ret>>

run_vars == <<eof_count, run_pc, events>>

walk_vars == <<scan_i, scan_j, scan_start, scan_level>>

session_vars == <<fs, backups, repo, env, now, editor_call, pending_proposals, pc,
                  responses, successful_files, failed_files, idx, ret, oplog,
                  commit_log, display_log, read_log, printed, git_call, last_approval>>

\* ---------------------------------------------------------------- helpers
Has(s, c) == \E k \in 1..Len(s) : s[k] = c

Range(s) == {s[k] : k \in 1..Len(s)}

EmptyTree == [p \in Paths |-> NoFile]

\* --------------------------------------------------------- ChatInterface
InvalidChars == {"<", ">", "|", ":", "*", "?", "\""}

MaxNameLen == 200

\* a validator that takes a name of MaxNameLen characters for too long
_is_valid_filename_rejects_at_limit(name) ==
    IF ~Has(name, ".") /\ ~Has(name, "/") THEN FALSE
    ELSE IF Has(name, " ") THEN FALSE
    ELSE IF Len(name) >= MaxNameLen THEN FALSE
    ELSE IF \E c \in InvalidChars : Has(name, c) THEN FALSE
    ELSE TRUE

\* _is_valid_filename, computed on the characters of the name
_is_valid_filename(name) ==
    IF ~Has(name, ".") /\ ~Has(name, "/") THEN FALSE
    ELSE IF Has(name, " ") THEN FALSE
    ELSE IF Len(name) > MaxNameLen THEN FALSE
    ELSE IF \E c \in InvalidChars : Has(name, c) THEN FALSE
    ELSE TRUE

\* the names of the model that _is_valid_filename accepts
ValidNames == {name \in DOMAIN Chars : _is_valid_filename(Chars[name])}

\* a resolution that gives the first mentioned file to every block without
\* a filename, however many blocks there are
ResolveFilename_any_block(block, mentioned, readme, nblocks) ==
    LET f1 == IF block.filename = None /\ mentioned # <<>>
              THEN mentioned[1] ELSE block.filename
    IN  IF f1 = None /\ block.language \in {"markdown", "md"}
        THEN IF readme THEN README_MD ELSE None
        ELSE f1

\* a resolution that falls back on the user message when the filename of the
\* block is not a valid one
ResolveFilename_fallback_on_invalid(block, mentioned, readme, nblocks) ==
    LET f0 == IF block.filename \in ValidNames THEN block.filename ELSE None
        f1 == IF f0 = None /\ mentioned # <<>> /\ nblocks = 1
              THEN mentioned[1] ELSE f0
    IN  IF f1 = None /\ block.language \in {"markdown", "md"}
        THEN IF mentioned # <<>> THEN mentioned[1]
             ELSE IF readme THEN README_MD ELSE None
        ELSE f1

\* the filename auto_create_files settles on for one block (None: no file)
ResolveFilename(block, mentioned, readme, nblocks) ==
    LET f1 == IF block.filename = None /\ mentioned # <<>> /\ nblocks = 1
              THEN mentioned[1] ELSE block.filename
    IN  IF f1 = None /\ block.language \in {"markdown", "md"}
        THEN IF mentioned # <<>> THEN mentioned[1]
             ELSE IF readme THEN README_MD ELSE None
        ELSE f1

\* FileEditor.read_file through ProjectManager.get_file_content:
\* "" when the file is absent (open raises, the handler returns "")
read_file(fsys, path) ==
    IF path \notin DOMAIN fsys \/ fsys[path] = NoFile THEN "" ELSE fsys[path]

\* appends the proposal and displays it under the number len(pending_proposals)
propose_change(queue, file_path, description, current_content, new_content) ==
    LET q == Append(queue, [file_path |-> file_path,
                            description |-> description,
                            current_content |-> current_content,
                            new_content |-> new_content])
    IN  [queue |-> q,
         shown |-> [number |-> Len(q), file_path |-> file_path,
                    description |-> description,
                    current_content |-> current_content,
                    new_content |-> new_content]]

\* a proposal pushed without counting it
ProposeFile_uncounted(acc, filename, existing_content, code) ==
    LET p == IF existing_content # ""
             THEN propose_change(acc.queue, filename,
                                 "Update " \o filename \o " with new code",
                                 existing_content, code)
             ELSE propose_change(acc.queue, filename,
                                 "Create new file " \o filename, "", code)
    IN  [queue |-> p.queue,
         shown |-> Append(acc.shown, p.shown),
         reads |-> acc.reads,
         files_proposed |-> acc.files_proposed]

\* auto_create_files, "File exists, propose modification" or "File doesn't
\* exist, propose creation", then files_proposed += 1; acc holds the queue,
\* the proposals displayed and the count of files proposed so far
ProposeFile(acc, filename, existing_content, code) ==
    LET p == IF existing_content # ""
             THEN propose_change(acc.queue, filename,
                                 "Update " \o filename \o " with new code",
                                 existing_content, code)
             ELSE propose_change(acc.queue, filename,
                                 "Create new file " \o filename, "", code)
    IN  [queue |-> p.queue,
         shown |-> Append(acc.shown, p.shown),
         reads |-> acc.reads,
         files_proposed |-> acc.files_proposed + 1]

\* a loop body that reads the file whatever the validator says
ProcessBlock_unvalidated(acc, code, filename, fsys) ==
    IF filename # None /\ code # ""
    THEN ProposeFile([acc EXCEPT !.reads = Append(@, filename)], filename,
                     read_file(fsys, filename), code)
    ELSE acc

\* auto_create_files, the body of the loop for one block once its filename
\* is resolved
ProcessBlock(acc, code, filename, fsys) ==
    IF filename # None /\ code # "" /\ filename \in ValidNames
    THEN ProposeFile([acc EXCEPT !.reads = Append(@, filename)], filename,
                     read_file(fsys, filename), code)
    ELSE acc

\* auto_create_files from block k on
RECURSIVE auto_create_files(_, _, _, _, _, _)
auto_create_files(code_blocks, k, acc, fsys, mentioned, readme) ==
    IF k > Len(code_blocks) THEN acc
    ELSE auto_create_files(code_blocks, k + 1,
                           ProcessBlock(acc, code_blocks[k].code,
                                        ResolveFilename(code_blocks[k], mentioned,
                                                        readme, Len(code_blocks)),
                                        fsys),
                           fsys, mentioned, readme)

\* ------------------------------------------------------------ FileEditor
\* datetime.now().strftime("%Y%m%d_%H%M%S_%f") at the n-th reading made
\* during one call; clk holds the clock and whether it is coarse
Timestamp(clk, n) == <<clk.now, IF clk.coarse THEN 0 ELSE n>>

\* _create_backup: the file is copied to <backup dir>/<path>.<stamp>.bak,
\* over a backup of that name if there is one; nothing when the copy fails.
\* The store lists the backup files in the order they were created.
_create_backup(bks, fsys, path, backupOk, stamp) ==
    IF ~backupOk THEN bks
    ELSE IF \E k \in DOMAIN bks : bks[k].path = path /\ bks[k].stamp = stamp
    THEN [k \in DOMAIN bks |->
             IF bks[k].path = path /\ bks[k].stamp = stamp
             THEN [bks[k] EXCEPT !.content = fsys[path]] ELSE bks[k]]
    ELSE Append(bks, [path |-> path, stamp |-> stamp, content |-> fsys[path]])

\* create_file for proposal number n; unw: the paths that cannot be written
create_file(fsys, bks, path, content, n, unw) ==
    IF fsys[path] # NoFile
    THEN [ok |-> FALSE, fs |-> fsys, backups |-> bks,
          ops |-> <<[n |-> n, op |-> "create", path |-> path, ok |-> FALSE,
                     prev |-> fsys[path], content |-> content]>>]
    ELSE [ok |-> path \notin unw,
          fs |-> IF path \notin unw THEN [fsys EXCEPT ![path] = content] ELSE fsys,
          backups |-> bks,
          ops |-> <<[n |-> n, op |-> "create", path |-> path, ok |-> path \notin unw,
                     prev |-> NoFile, content |-> content]>>]

\* write_file that never takes a backup
write_file_never_backs_up(fsys, bks, path, content, create_backup, n, unw, backupOk, stamp) ==
    [ok |-> path \notin unw,
     fs |-> IF path \notin unw THEN [fsys EXCEPT ![path] = content] ELSE fsys,
     backups |-> bks,
     ops |-> <<[n |-> n, op |-> "write", path |-> path, ok |-> path \notin unw,
                prev |-> fsys[path], content |-> content]>>]

\* write_file that reports success on an existing file without replacing it
write_file_keeps_existing(fsys, bks, path, content, create_backup, n, unw, backupOk, stamp) ==
    [ok |-> path \notin unw,
     fs |-> IF path \notin unw /\ fsys[path] = NoFile
            THEN [fsys EXCEPT ![path] = content] ELSE fsys,
     backups |-> bks,
     ops |-> <<[n |-> n, op |-> "write", path |-> path, ok |-> path \notin unw,
                prev |-> fsys[path], content |-> content]>>]

\* write_file for proposal number n
write_file(fsys, bks, path, content, create_backup, n, unw, backupOk, stamp) ==
    LET wantBackup == create_backup /\ fsys[path] # NoFile
        bks1 == IF wantBackup THEN _create_backup(bks, fsys, path, backupOk, stamp)
                ELSE bks
        ops1 == IF wantBackup
                THEN <<[n |-> n, op |-> "backup", path |-> path, ok |-> backupOk,
                        prev |-> fsys[path], content |-> fsys[path],
                        stamp |-> stamp]>>
                ELSE <<>>
    IN  [ok |-> path \notin unw,
         fs |-> IF path \notin unw THEN [fsys EXCEPT ![path] = content] ELSE fsys,
         backups |-> bks1,
         ops |-> Append(ops1, [n |-> n, op |-> "write", path |-> path,
                               ok |-> path \notin unw,
                               prev |-> fsys[path], content |-> content])]

\* the outcome of a FileEditor call that changed nothing
EditorFailed(fsys, bks) == [ok |-> FALSE, fs |-> fsys, backups |-> bks]

\* delete_file: False on an absent file; otherwise the backup, when asked
\* for, and the unlink
delete_file(fsys, bks, path, create_backup, unw, backupOk, stamp) ==
    IF fsys[path] = NoFile THEN EditorFailed(fsys, bks)
    ELSE [ok |-> path \notin unw,
          fs |-> IF path \notin unw THEN [fsys EXCEPT ![path] = NoFile] ELSE fsys,
          backups |-> IF create_backup
                      THEN _create_backup(bks, fsys, path, backupOk, stamp)
                      ELSE bks]

\* append_to_file: False on an absent file; otherwise the backup, when
\* asked for, and the write in mode "a"
append_to_file(fsys, bks, path, content, create_backup, unw, backupOk, stamp) ==
    IF fsys[path] = NoFile THEN EditorFailed(fsys, bks)
    ELSE [ok |-> path \notin unw,
          fs |-> IF path \notin unw
                 THEN [fsys EXCEPT ![path] = fsys[path] \o content] ELSE fsys,
          backups |-> IF create_backup
                      THEN _create_backup(bks, fsys, path, backupOk, stamp)
                      ELSE bks]

\* the letters a file content is made of, and the contents as strings
Letters == {"x", "y"}

RECURSIVE Join(_)
Join(q) == IF q = <<>> THEN "" ELSE q[1] \o Join(Tail(q))

LetterSeqs == {<<>>} \cup {<<c>> : c \in Letters}

Contents == {Join(q) : q \in LetterSeqs}

LettersOf(content) == CHOOSE q \in LetterSeqs : Join(q) = content

\* str.replace(old_text, new_text) for an old_text of one letter
str_replace(content, old_text, new_text) ==
    LET q == LettersOf(content)
    IN  Join([i \in DOMAIN q |-> IF q[i] = old_text THEN new_text ELSE q[i]])

\* replace_in_file: reads the file ("" when it is absent), False when
\* old_text is not in it, otherwise write_file of the replaced content
replace_in_file(fsys, bks, path, old_text, new_text, create_backup, unw, backupOk, stamp) ==
    LET content == read_file(fsys, path)
    IN  IF old_text \notin Range(LettersOf(content)) THEN EditorFailed(fsys, bks)
        ELSE LET w == write_file(fsys, bks, path,
                                 str_replace(content, old_text, new_text),
                                 create_backup, 0, unw, backupOk, stamp)
             IN  [ok |-> w.ok, fs |-> w.fs, backups |-> w.backups]

\* the name of a backup file, and a name that is no file
BackupName(b) == <<b.path, b.stamp>>

NoBackup == <<>>

\* restore that takes the oldest backup of the file whatever it is given
restore_from_backup_oldest(fsys, bks, backup_path, path, unw) ==
    IF (\A k \in DOMAIN bks : bks[k].path # path) \/ path \in unw
    THEN EditorFailed(fsys, bks)
    ELSE LET k == CHOOSE i \in DOMAIN bks :
                      bks[i].path = path /\ \A j \in 1..(i - 1) : bks[j].path # path
         IN  [ok |-> TRUE, fs |-> [fsys EXCEPT ![path] = bks[k].content],
              backups |-> bks]

\* restore_from_backup(backup_path, relative_path): the backup file copied
\* onto the file; False when the copy raises (no such backup, no permission)
restore_from_backup(fsys, bks, backup_path, path, unw) ==
    IF (\A k \in DOMAIN bks : BackupName(bks[k]) # backup_path) \/ path \in unw
    THEN EditorFailed(fsys, bks)
    ELSE LET k == CHOOSE i \in DOMAIN bks : BackupName(bks[i]) = backup_path
         IN  [ok |-> TRUE, fs |-> [fsys EXCEPT ![path] = bks[k].content],
              backups |-> bks]

\* ------------------------------------------------- parse_code_blocks
\* A text is a sequence of characters. Positions are those of the source:
\* the first character is at 0, text[a:b] runs from a up to b - 1, and find
\* returns -1 when there is no match.
\* the backquote; it is written as an apostrophe, which no text of the model
\* holds, because a string of the language cannot hold a backquote
BT == "'"

NL == "\n"

Fence == <<BT, BT, BT>>

Whitespace == {" ", NL, "\t", "\r"}

\* the letters of the texts of the model (str.isalpha)
Alpha == {"a", "d", "h", "i", "j", "m", "n", "o", "p", "s", "t", "x", "y"}

Smaller(a, b) == IF a < b THEN a ELSE b

\* text[a:b]
Slice(text, a, b) ==
    IF a >= Smaller(b, Len(text)) THEN <<>>
    ELSE SubSeq(text, a + 1, Smaller(b, Len(text)))

\* text.find(pat, start)
Find(text, pat, start) ==
    LET hits == {p \in start..(Len(text) - Len(pat)) :
                    Slice(text, p, p + Len(pat)) = pat}
    IN  IF hits = {} THEN -1
        ELSE CHOOSE p \in hits : \A q \in hits : p <= q

\* s.strip()
Strip(s) ==
    LET black == {k \in DOMAIN s : s[k] \notin Whitespace}
    IN  IF black = {} THEN <<>>
        ELSE SubSeq(s, CHOOSE k \in black : \A l \in black : k <= l,
                       CHOOSE k \in black : \A l \in black : k >= l)

\* s.lstrip(c)
LStrip(s, c) ==
    LET other == {k \in DOMAIN s : s[k] # c}
    IN  IF other = {} THEN <<>>
        ELSE SubSeq(s, CHOOSE k \in other : \A l \in other : k <= l, Len(s))

\* code.split("\n")[0] and "\n".join(code.split("\n")[1:])
FirstLine(code) ==
    IF Find(code, <<NL>>, 0) = -1 THEN code ELSE Slice(code, 0, Find(code, <<NL>>, 0))

OtherLines(code) ==
    IF Find(code, <<NL>>, 0) = -1 THEN <<>>
    ELSE Slice(code, Find(code, <<NL>>, 0) + 1, Len(code))

\* the language tag of the opening fence at i whose line ends at line_end
LanguageTag(text, i, line_end) ==
    LET tag == Join(Strip(Slice(text, i + 3, line_end)))
    IN  IF tag = "" THEN "text" ELSE tag

\* a walk that stops at the first fence at a line start
MarkdownWalk_first_fence(text, content_start, j, nesting_level) ==
    IF Slice(text, content_start, content_start + 3) = Fence
    THEN [closed |-> TRUE, j |-> content_start]
    ELSE IF Find(text, <<NL>> \o Fence, content_start) = -1
    THEN [closed |-> FALSE, j |-> Len(text)]
    ELSE [closed |-> TRUE, j |-> Find(text, <<NL>> \o Fence, content_start) + 1]

\* a pass of the inner loop that leaves j where it is on a character that
\* starts no fence
MarkdownStep_stays(text, content_start, j, nesting_level) ==
    IF (j = content_start \/ text[j] = NL) /\ Slice(text, j, j + 3) = Fence
    THEN LET line_end_j == IF Find(text, <<NL>>, j) = -1 THEN Len(text)
                           ELSE Find(text, <<NL>>, j)
             after_ticks == Strip(Slice(text, j + 3, line_end_j))
         IN  IF after_ticks # <<>> /\ after_ticks[1] \in Alpha
             THEN [closed |-> FALSE, j |-> line_end_j + 1,
                   nesting_level |-> nesting_level + 1]
             ELSE IF nesting_level > 0
             THEN [closed |-> FALSE, j |-> line_end_j + 1,
                   nesting_level |-> nesting_level - 1]
             ELSE [closed |-> TRUE, j |-> j, nesting_level |-> nesting_level]
    ELSE [closed |-> FALSE, j |-> j, nesting_level |-> nesting_level]

\* one pass of the inner loop of a markdown block, at position j < len(text)
\* with the nesting counter at nesting_level: the position and the counter
\* it leaves, and whether it left the loop at the fence that closes the block
MarkdownStep(text, content_start, j, nesting_level) ==
    IF (j = content_start \/ text[j] = NL) /\ Slice(text, j, j + 3) = Fence
    THEN LET line_end_j == IF Find(text, <<NL>>, j) = -1 THEN Len(text)
                           ELSE Find(text, <<NL>>, j)
             after_ticks == Strip(Slice(text, j + 3, line_end_j))
         IN  IF after_ticks # <<>> /\ after_ticks[1] \in Alpha
             THEN [closed |-> FALSE, j |-> line_end_j + 1,
                   nesting_level |-> nesting_level + 1]
             ELSE IF nesting_level > 0
             THEN [closed |-> FALSE, j |-> line_end_j + 1,
                   nesting_level |-> nesting_level - 1]
             ELSE [closed |-> TRUE, j |-> j, nesting_level |-> nesting_level]
    ELSE [closed |-> FALSE, j |-> j + 1, nesting_level |-> nesting_level]

\* the walk through the body of a markdown block from position j with the
\* nesting counter at nesting_level: the position of the fence that closes
\* the block, or the end of the text
RECURSIVE MarkdownWalk(_, _, _, _)
MarkdownWalk(text, content_start, j, nesting_level) ==
    IF j >= Len(text) THEN [closed |-> FALSE, j |-> j]
    ELSE LET pass == MarkdownStep(text, content_start, j, nesting_level)
         IN  IF pass.closed THEN [closed |-> TRUE, j |-> j]
             ELSE MarkdownWalk(text, content_start, pass.j, pass.nesting_level)

\* a block that lifts the filename and keeps the comment line in the code
CommentedBlock_keeps_comment(language, code) ==
    LET first_line == Strip(FirstLine(code))
        potential_filename == Strip(LStrip(first_line, "#"))
    IN  IF /\ first_line # <<>> /\ first_line[1] = "#"
           /\ (Has(potential_filename, "/") \/ Has(potential_filename, "."))
        THEN [language |-> language, code |-> Join(Strip(code)),
              filename |-> Join(potential_filename)]
        ELSE [language |-> language, code |-> Join(Strip(code)), filename |-> None]

\* the block of a non-markdown fence: the filename is lifted from a first
\* line that starts with "#" and has a "." or a "/"
CommentedBlock(language, code) ==
    LET first_line == Strip(FirstLine(code))
        potential_filename == Strip(LStrip(first_line, "#"))
    IN  IF /\ first_line # <<>> /\ first_line[1] = "#"
           /\ (Has(first_line, ".") \/ Has(first_line, "/"))
           /\ (Has(potential_filename, "/") \/ Has(potential_filename, "."))
        THEN [language |-> language, code |-> Join(Strip(OtherLines(code))),
              filename |-> Join(potential_filename)]
        ELSE [language |-> language, code |-> Join(Strip(code)), filename |-> None]

\* the loop of parse_code_blocks from position i
RECURSIVE ScanFrom(_, _, _)
ScanFrom(text, i, blocks) ==
    IF i >= Len(text) THEN blocks
    ELSE IF Slice(text, i, i + 3) # Fence THEN ScanFrom(text, i + 1, blocks)
    ELSE LET line_end == Find(text, <<NL>>, i)
             language == LanguageTag(text, i, line_end)
             content_start == line_end + 1
             walk == MarkdownWalk(text, content_start, content_start, 0)
             at_line == Find(text, <<NL>> \o Fence, content_start)
             closing == IF at_line = -1 THEN Find(text, Fence, content_start)
                        ELSE at_line
         IN  IF line_end = -1 THEN blocks
             ELSE IF language \in {"markdown", "md"}
             THEN IF walk.closed
                  THEN ScanFrom(text, walk.j + 3,
                                Append(blocks,
                                       [language |-> language,
                                        code |-> Join(Strip(Slice(text, content_start,
                                                                  walk.j))),
                                        filename |-> None]))
                  ELSE Append(blocks,
                              [language |-> language,
                               code |-> Join(Strip(Slice(text, content_start,
                                                         Len(text)))),
                               filename |-> None])
             ELSE IF closing = -1
             THEN Append(blocks,
                         CommentedBlock(language,
                                        Slice(text, content_start, Len(text))))
             ELSE ScanFrom(text, closing + 4,
                           Append(blocks,
                                  CommentedBlock(language,
                                                 Slice(text, content_start, closing))))

parse_code_blocks(text) == ScanFrom(text, 0, <<>>)

\* ------------------------------------------------------------ GitManager
HeadTree(r) == r.history[Len(r.history)].tree

\* repo.untracked_files is non-empty: a file of the working tree, or a
\* backup file (the backup directory is not ignored), is not in the index
HasUntracked(fsys, bks, index) ==
    \/ \E p \in Paths : fsys[p] # NoFile /\ index[p] = NoFile
    \/ bks # <<>>

\* commit_changes that stages the whole working tree whatever files it is given
commit_changes_stages_all(r, fsys, bks, message, files, gitOk) ==
    IF ~gitOk \/ (fsys = HeadTree(r) /\ ~HasUntracked(fsys, bks, fsys))
    THEN [ok |-> FALSE, repo |-> [r EXCEPT !.index = fsys]]
    ELSE [ok |-> TRUE,
          repo |-> [history |-> Append(r.history, [message |-> message, tree |-> fsys]),
                    index |-> fsys]]

\* commit_changes(message, files) with an explicit list of files; gitOk is
\* false when a git call made after the staging raises
commit_changes(r, fsys, bks, message, files, gitOk) ==
    LET \* "if files:" is false for None and for an empty list: git add -A
        staged == IF files = <<>> THEN fsys
                  ELSE [p \in Paths |-> IF p \in Range(files) THEN fsys[p] ELSE r.index[p]]
        untracked == files # <<>> /\ HasUntracked(fsys, bks, staged)
    IN  IF \E p \in Range(files) : fsys[p] = NoFile
        THEN [ok |-> FALSE, repo |-> r]
        ELSE IF ~gitOk
        THEN [ok |-> FALSE, repo |-> [r EXCEPT !.index = staged]]
        ELSE IF staged = HeadTree(r) /\ ~untracked
        THEN [ok |-> FALSE, repo |-> [r EXCEPT !.index = staged]]
        ELSE [ok |-> TRUE,
              repo |-> [history |-> Append(r.history, [message |-> message, tree |-> staged]),
                        index |-> staged]]

\* the reference of the history entry at position k (root first, HEAD last);
\* 0 stands for a string that names no commit
InvalidRef == 0

CommitRefs(r) == 1..Len(r.history)

\* git reset that moves HEAD and the index and leaves the working tree
reset_mixed(r, fsys, k) ==
    [repo |-> [history |-> SubSeq(r.history, 1, k), index |-> r.history[k].tree],
     fs |-> fsys]

\* git reset --hard to the commit at position k: HEAD and the index move to
\* it, its files are checked out, and tracked files it lacks are removed;
\* untracked files stay
reset_hard(r, fsys, k) ==
    LET target == r.history[k].tree
    IN  [repo |-> [history |-> SubSeq(r.history, 1, k), index |-> target],
         fs |-> [p \in Paths |->
                    IF target[p] # NoFile THEN target[p]
                    ELSE IF r.index[p] # NoFile \/ HeadTree(r)[p] # NoFile THEN NoFile
                    ELSE fsys[p]]]

\* a revert that answers an unknown reference by resetting to HEAD
revert_to_commit_resets_on_unknown(r, fsys, commit_hash) ==
    LET h == reset_hard(r, fsys, IF commit_hash \in CommitRefs(r)
                                 THEN commit_hash ELSE Len(r.history))
    IN  [ok |-> commit_hash \in CommitRefs(r), repo |-> h.repo, fs |-> h.fs]

\* revert_to_commit: git reset --hard commit_hash, False when git rejects the
\* reference
revert_to_commit(r, fsys, commit_hash) ==
    IF commit_hash \notin CommitRefs(r)
    THEN [ok |-> FALSE, repo |-> r, fs |-> fsys]
    ELSE LET h == reset_hard(r, fsys, commit_hash)
         IN  [ok |-> TRUE, repo |-> h.repo, fs |-> h.fs]

\* an undo that moves HEAD back and leaves the files as they are
undo_last_change_keeps_files(r, fsys) ==
    IF Len(r.history) < 2
    THEN [ok |-> FALSE, repo |-> r, fs |-> fsys]
    ELSE LET h == reset_mixed(r, fsys, Len(r.history) - 1)
         IN  [ok |-> TRUE, repo |-> h.repo, fs |-> h.fs]

\* undo_last_change: False with fewer than two commits, else
\* git reset --hard HEAD~1
undo_last_change(r, fsys) ==
    IF Len(r.history) < 2
    THEN [ok |-> FALSE, repo |-> r, fs |-> fsys]
    ELSE LET h == reset_hard(r, fsys, Len(r.history) - 1)
         IN  [ok |-> TRUE, repo |-> h.repo, fs |-> h.fs]

\* ------------------------------------------------------ approve_proposal
\* a message that counts the files from zero
CommitMessage_from_zero(files) ==
    "Applied changes to " \o ToString(Len(files) - 1) \o " file(s)"

\* the message of the commit of an approval
CommitMessage(files) == "Applied changes to " \o ToString(Len(files)) \o " file(s)"

\* a loop that walks the queue from its end
NextProposal_reversed(queue, n) == queue[Len(queue) - n + 1]

\* the proposal the loop of approve_proposal handles in its n-th iteration
NextProposal(queue, n) == queue[n]

\* an iteration whose fallback write takes a backup
ApplyProposal_fallback_backs_up(fsys, bks, proposal, n, unw, backupOk, clk) ==
    LET c == create_file(fsys, bks, proposal.file_path, proposal.new_content, n, unw)
        w == write_file(fsys, bks, proposal.file_path, proposal.new_content,
                        TRUE, n, unw, backupOk, Timestamp(clk, n))
    IN  IF proposal.current_content = ""
        THEN IF c.ok THEN c
             ELSE [ok |-> w.ok, fs |-> w.fs, backups |-> w.backups, ops |-> c.ops \o w.ops]
        ELSE w

\* an iteration without the fallback write
ApplyProposal_no_fallback(fsys, bks, proposal, n, unw, backupOk, clk) ==
    IF proposal.current_content = ""
    THEN create_file(fsys, bks, proposal.file_path, proposal.new_content, n, unw)
    ELSE write_file(fsys, bks, proposal.file_path, proposal.new_content,
                    TRUE, n, unw, backupOk, Timestamp(clk, n))

\* one iteration of the loop of approve_proposal
ApplyProposal(fsys, bks, proposal, n, unw, backupOk, clk) ==
    LET is_new_file == proposal.current_content = ""
        c == create_file(fsys, bks, proposal.file_path, proposal.new_content, n, unw)
        w == write_file(fsys, bks, proposal.file_path, proposal.new_content,
                        FALSE, n, unw, backupOk, Timestamp(clk, n))
        u == write_file(fsys, bks, proposal.file_path, proposal.new_content,
                        TRUE, n, unw, backupOk, Timestamp(clk, n))
    IN  IF is_new_file
        THEN IF c.ok THEN c
             ELSE [ok |-> w.ok, fs |-> w.fs, backups |-> w.backups, ops |-> c.ops \o w.ops]
        ELSE u

\* approve_proposal, "if success: ... else: ...": the path goes to one list
RecordOutcome(successful, failed, success, file_path) ==
    IF success
    THEN [successful_files |-> Append(successful, file_path), failed_files |-> failed]
    ELSE [successful_files |-> successful, failed_files |-> Append(failed, file_path)]

\* a loop that stops at the first proposal that fails
RECURSIVE approve_loop_aborts(_, _, _, _, _, _)
approve_loop_aborts(queue, n, st, unw, backupOk, clk) ==
    IF n > Len(queue) THEN st
    ELSE LET proposal == NextProposal(queue, n)
             r == ApplyProposal(st.fs, st.backups, proposal, n, unw, backupOk, clk)
             o == RecordOutcome(st.successful_files, st.failed_files, r.ok,
                                proposal.file_path)
             st1 == [fs |-> r.fs, backups |-> r.backups,
                     successful_files |-> o.successful_files,
                     failed_files |-> o.failed_files,
                     oplog |-> st.oplog \o r.ops]
         IN  IF r.ok THEN approve_loop_aborts(queue, n + 1, st1, unw, backupOk, clk) ELSE st1

\* the loop of approve_proposal from its n-th iteration on; st holds the
\* working tree, the backup store, the two result lists and the operations
\* issued so far
RECURSIVE approve_loop(_, _, _, _, _, _)
approve_loop(queue, n, st, unw, backupOk, clk) ==
    IF n > Len(queue) THEN st
    ELSE LET proposal == NextProposal(queue, n)
             r == ApplyProposal(st.fs, st.backups, proposal, n, unw, backupOk, clk)
             o == RecordOutcome(st.successful_files, st.failed_files, r.ok,
                                proposal.file_path)
         IN  approve_loop(queue, n + 1,
                          [fs |-> r.fs,
                           backups |-> r.backups,
                           successful_files |-> o.successful_files,
                           failed_files |-> o.failed_files,
                           oplog |-> st.oplog \o r.ops],
                          unw, backupOk, clk)

\* a queue kept for another try when nothing was committed
AfterApprove_keeps_uncommitted(queue, committed) == IF committed THEN <<>> ELSE queue

\* pending_proposals after approve_proposal ("Clear all proposals")
AfterApprove(queue, committed) == <<>>

\* a result that reports failure when the commit failed
ApproveResult_needs_commit(successful, failed, committed) ==
    IF successful # <<>> /\ committed THEN "True" ELSE "False"

\* the value approve_proposal returns after the loop
ApproveResult(successful, failed, committed) ==
    IF successful # <<>> THEN "True" ELSE "False"

\* the line approve_proposal prints about the batch
ApproveSummary(successful, failed) ==
    IF successful # <<>>
    THEN "Successfully processed " \o ToString(Len(successful)) \o " file(s)"
    ELSE "Failed to process all " \o ToString(Len(failed)) \o " file(s)"

\* ------------------------------------------------------- reject_proposal
\* a rejection that removes the files the proposals name
reject_proposal_discards_files(queue, fsys, bks, r) ==
    [queue |-> <<>>,
     fs |-> [p \in Paths |->
                IF \E k \in DOMAIN queue : queue[k].file_path = p THEN NoFile ELSE fsys[p]],
     backups |-> bks, repo |-> r, raised |-> FALSE,
     printed |-> IF queue = <<>> THEN "No pending proposals to reject"
                 ELSE "Rejected " \o ToString(Len(queue)) \o " proposed change(s):"]

\* a rejection that raises on an empty queue
reject_proposal_raises_on_empty(queue, fsys, bks, r) ==
    [queue |-> <<>>, fs |-> fsys, backups |-> bks, repo |-> r,
     raised |-> queue = <<>>,
     printed |-> IF queue = <<>> THEN "No pending proposals to reject"
                 ELSE "Rejected " \o ToString(Len(queue)) \o " proposed change(s):"]

\* reject_proposal: the queue, working tree, backup store and repository it
\* leaves, and the line it prints
reject_proposal(queue, fsys, bks, r) ==
    IF queue = <<>>
    THEN [queue |-> queue, fs |-> fsys, backups |-> bks, repo |-> r,
          raised |-> FALSE, printed |-> "No pending proposals to reject"]
    ELSE [queue |-> <<>>, fs |-> fsys, backups |-> bks, repo |-> r,
          raised |-> FALSE,
          printed |-> "Rejected " \o ToString(Len(queue)) \o " proposed change(s):"]

\* process_user_input, "Detected N file(s) in the response."
DetectedLine(files_proposed) ==
    "Detected " \o ToString(files_proposed) \o " file(s) in the response."

\* ------------------------------------------------------------------ state
Init ==
    /\ fs \in InitialProjects
    /\ backups = <<>>
    /\ repo = [history |-> <<[message |-> "Initial commit - Project created",
                              tree |-> EmptyTree]>>,
               index |-> EmptyTree]
    /\ \E e \in Environments :
          unwritable = e[1] /\ backup_ok = e[2] /\ git_ok = e[3] /\ coarse_clock = e[4]
    /\ now = 0
    /\ editor_call = [op |-> "none"]
    /\ pending_proposals = <<>>
    /\ pc = "prompt"
    /\ responses = 0
    /\ successful_files = <<>>
    /\ failed_files = <<>>
    /\ idx = 0
    /\ ret = "none"
    /\ oplog = <<>>
    /\ commit_log = <<>>
    /\ display_log = <<>>
    /\ read_log = <<>>
    /\ printed = ""
    /\ git_call = [op |-> "none"]
    /\ response = <<>>
    /\ scan_pc = "idle"
    /\ parsed_blocks = <<>>
    /\ user_message = [files |-> <<>>, readme |-> FALSE]
    /\ targets = <<>>
    /\ filename_arg = <<>>
    /\ valid_ret = "none"
    /\ eof_count = 0
    /\ run_pc = "prompt"
    /\ events = <<>>
    /\ scan_i = 0
    /\ scan_j = 0
    /\ scan_start = 0
    /\ scan_level = 0
    /\ last_approval = [fs_before |-> EmptyTree, written |-> {}, committed |-> FALSE,
                        len_after |-> 0]

\* the responses of at most MaxBlocks code blocks
BlockLists == UNION {[1..n -> Blocks] : n \in 0..MaxBlocks}

\* process_user_input, regular chat message: the response is scanned into
\* code_blocks, auto_create_files proposes its files, and the user is asked
\* for approval when at least one file was proposed
ChatMessage ==
    /\ pc = "prompt"
    /\ responses < MaxResponses
    /\ responses' = responses + 1
    /\ \E code_blocks \in BlockLists, m \in Mentions :
        \* the user message plays no part when every block carries a filename
        /\ (\A k \in 1..Len(code_blocks) : code_blocks[k].filename # None)
               => m = [files |-> <<>>, readme |-> FALSE]
        /\ LET a == auto_create_files(code_blocks, 1,
                                      [queue |-> pending_proposals,
                                       shown |-> display_log,
                                       reads |-> read_log,
                                       files_proposed |-> 0],
                                      fs, m.files, m.readme)
           IN  /\ pending_proposals' = a.queue
               /\ display_log' = a.shown
               /\ read_log' = a.reads
               /\ printed' = IF a.files_proposed > 0
                             THEN DetectedLine(a.files_proposed) ELSE printed
               /\ pc' = IF a.files_proposed > 0 THEN "confirm" ELSE "returned"
    /\ UNCHANGED <<fs, backups, repo, env, now, successful_files, failed_files, idx,
                   ret, oplog, commit_log, git_call, editor_call, scan_vars, name_vars, run_vars, walk_vars, last_approval>>

\* approve_proposal: "No pending proposals" on an empty queue; otherwise
\* the loop over the queue, the commit of the successful files, the clearing
\* of the queue and the result. Entered from the approval prompt (Enter, y,
\* yes) or by the /approve command.
ApproveProposal ==
    /\ pc \in {"prompt", "confirm"}
    /\ IF pending_proposals = <<>>
       THEN /\ ret' = "False"
            /\ printed' = "No pending proposals"
            /\ UNCHANGED <<fs, backups, repo, successful_files, failed_files, idx,
                           oplog, commit_log, pending_proposals, now, last_approval>>
       ELSE   LET l == approve_loop(pending_proposals, 1,
                                    [fs |-> fs, backups |-> backups,
                                     successful_files |-> <<>>,
                                     failed_files |-> <<>>, oplog |-> <<>>],
                                    unwritable, backup_ok,
                                    [now |-> now, coarse |-> coarse_clock])
                  message == CommitMessage(l.successful_files)
                  c == commit_changes(repo, l.fs, l.backups, message,
                                      l.successful_files, git_ok)
              IN  /\ fs' = l.fs
                  /\ backups' = l.backups
                  /\ successful_files' = l.successful_files
                  /\ failed_files' = l.failed_files
                  /\ oplog' = l.oplog
                  /\ idx' = Len(pending_proposals) + 1
                  /\ IF l.successful_files # <<>>
                     THEN /\ repo' = c.repo
                          /\ commit_log' = Append(commit_log,
                                                  [message |-> message,
                                                   files |-> l.successful_files,
                                                   ok |-> c.ok,
                                                   index_before |-> repo.index,
                                                   index_after |-> c.repo.index])
                     ELSE UNCHANGED <<repo, commit_log>>
                  /\ pending_proposals' = AfterApprove(pending_proposals, c.ok)
                  /\ ret' = ApproveResult(l.successful_files, l.failed_files,
                                          l.successful_files # <<>> /\ c.ok)
                  /\ printed' = ApproveSummary(l.successful_files, l.failed_files)
                  /\ now' = now + 1
                  /\ last_approval' =
                        [fs_before |-> fs,
                         written |-> {l.oplog[i].path : i \in
                                        {k \in DOMAIN l.oplog :
                                            /\ l.oplog[k].op \in {"create", "write"}
                                            /\ l.oplog[k].ok}},
                         committed |-> l.successful_files # <<>> /\ c.ok,
                         len_after |-> IF l.successful_files # <<>>
                                       THEN Len(c.repo.history)
                                       ELSE Len(repo.history)]
    /\ pc' = "returned"
    /\ UNCHANGED <<env, responses, display_log, read_log, git_call, editor_call,
                   scan_vars, name_vars, run_vars, walk_vars>>

\* reject_proposal: from the approval prompt (any other answer, Ctrl-C,
\* end of input) or from the /reject command
RejectProposal ==
    /\ pc \in {"prompt", "confirm"}
    /\ LET rj == reject_proposal(pending_proposals, fs, backups, repo)
       IN  /\ pending_proposals' = rj.queue
           /\ fs' = rj.fs
           /\ backups' = rj.backups
           /\ repo' = rj.repo
           /\ printed' = rj.printed
           /\ ret' = IF rj.raised THEN "raise" ELSE "None"
    /\ pc' = "returned"
    /\ UNCHANGED <<env, now, responses, successful_files, failed_files,
                   idx, oplog, commit_log, display_log, read_log, git_call, editor_call,
                   scan_vars, name_vars, run_vars, walk_vars, last_approval>>

\* process_user_input returns to the loop of run, which shows the response
\* and prompts again; the locals of the finished call are gone
ShowResponse ==
    /\ pc = "returned"
    /\ pc' = "prompt"
    /\ successful_files' = <<>>
    /\ failed_files' = <<>>
    /\ idx' = 0
    /\ ret' = "none"
    /\ oplog' = <<>>
    /\ commit_log' = <<>>
    /\ display_log' = <<>>
    /\ read_log' = <<>>
    /\ printed' = ""
    /\ UNCHANGED <<fs, backups, repo, env, now, pending_proposals, responses, git_call,
                   editor_call, scan_vars, name_vars, run_vars, walk_vars, last_approval>>

Next ==
    \/ ChatMessage
    \/ ApproveProposal
    \/ RejectProposal
    \/ ShowResponse

Spec == Init /\ [][Next]_vars

\* ------------------------------------------------ GitManager on its own
\* A session of GitManager calls (create_snapshot, commit_changes with a
\* list, /revert with and without a reference) between which files of the
\* working tree are written.
GitCodes == {"x", "y"}

FileLists == {<<README_MD>>, <<MAIN_PY>>, <<README_MD, MAIN_PY>>}

GitIdle == pc = "prompt" /\ pending_proposals = <<>>

GitFrame == UNCHANGED <<backups, env, now, editor_call, scan_vars, name_vars, run_vars, walk_vars, last_approval, pending_proposals, pc, responses, successful_files,
                        failed_files, idx, ret, oplog, commit_log, display_log,
                        read_log, printed>>

\* what git_call records of a call: the operation, its argument, its result,
\* and the length of the history and the tree of HEAD it started from
GitCall(op, arg, ok) ==
    [op |-> op, arg |-> arg, ok |-> ok,
     len_before |-> Len(repo.history), head_before |-> HeadTree(repo)]

InitGit ==
    /\ Init
    /\ unwritable = {} /\ backup_ok /\ git_ok /\ ~coarse_clock

\* a file of the working tree is written without backup
GitWriteFile ==
    /\ GitIdle
    /\ \E p \in Paths, c \in GitCodes :
          /\ fs[p] # c
          /\ fs' = write_file(fs, backups, p, c, FALSE, 0, unwritable, backup_ok,
                               Timestamp([now |-> now, coarse |-> coarse_clock], 0)).fs
          /\ git_call' = GitCall("write", p, TRUE)
    /\ UNCHANGED repo
    /\ GitFrame

\* commit_changes(message, files) with a list of files
CommitFiles ==
    /\ GitIdle
    /\ Len(repo.history) < MaxCommits
    /\ \E files \in FileLists :
          LET c == commit_changes(repo, fs, backups, "Update files", files, git_ok)
          IN  /\ repo' = c.repo
              /\ git_call' = GitCall("commit", files, c.ok)
    /\ UNCHANGED fs
    /\ GitFrame

\* create_snapshot(description): commit_changes(message) without files
CreateSnapshot ==
    /\ GitIdle
    /\ Len(repo.history) < MaxCommits
    /\ LET c == commit_changes(repo, fs, backups, "Snapshot: state", <<>>, git_ok)
       IN  /\ repo' = c.repo
           /\ git_call' = GitCall("commit", <<>>, c.ok)
    /\ UNCHANGED fs
    /\ GitFrame

\* "/revert <hash>": revert_changes(commit_hash) -> revert_to_commit
RevertToCommit ==
    /\ GitIdle
    /\ \E commit_hash \in CommitRefs(repo) \cup {InvalidRef} :
          LET v == revert_to_commit(repo, fs, commit_hash)
          IN  /\ repo' = v.repo
              /\ fs' = v.fs
              /\ git_call' = GitCall("revert", commit_hash, v.ok)
    /\ GitFrame

\* "/revert": revert_changes() -> undo_last_change
UndoLastChange ==
    /\ GitIdle
    /\ LET u == undo_last_change(repo, fs)
       IN  /\ repo' = u.repo
           /\ fs' = u.fs
           /\ git_call' = GitCall("undo", InvalidRef, u.ok)
    /\ GitFrame

NextGit ==
    \/ GitWriteFile
    \/ CommitFiles
    \/ CreateSnapshot
    \/ RevertToCommit
    \/ UndoLastChange

GitSpec == InitGit /\ [][NextGit]_vars

\* ----------------------------------------------- FileEditor on its own
\* A session of calls on one FileEditor: write_file, create_file,
\* delete_file, append_to_file, replace_in_file and restore_from_backup, on
\* files whose contents are the strings of Contents.
EditorFrame == UNCHANGED <<repo, env, scan_vars, name_vars, run_vars, walk_vars, last_approval, pending_proposals, pc, responses, successful_files,
                           failed_files, idx, ret, oplog, commit_log, display_log,
                           read_log, printed, git_call>>

Clock == [now |-> now, coarse |-> coarse_clock]

\* the readings the clock can give after one that was just taken
LaterReadings == IF coarse_clock THEN {now, now + 1} ELSE {now + 1}

\* a call may ask for a backup while the store has room for one and the
\* clock has readings left
BackupChoices ==
    IF Len(backups) < MaxBackups /\ now < MaxBackups THEN BOOLEAN ELSE {FALSE}

\* what editor_call records of a call: of a write_file that came to a
\* backup attempt the file, its content before the call and the name the
\* call gave to its backup; of a restore_from_backup its arguments, whether
\* it takes the backup of the write_file just before it back to that file,
\* and the content it replaced; of another call that it was made
EditorCall(op, path, create_backup) ==
    IF op = "write" /\ create_backup /\ fs[path] # NoFile
    THEN [op |-> "write", path |-> path, prev |-> fs[path],
          backup_name |-> <<path, Timestamp(Clock, 0)>>]
    ELSE [op |-> "other"]

\* the state after a call with outcome e that asked for a backup or not
EditorDone(op, path, create_backup, e) ==
    /\ fs' = e.fs
    /\ backups' = e.backups
    /\ editor_call' = EditorCall(op, path, create_backup)
    /\ IF create_backup /\ fs[path] # NoFile
       THEN now' \in LaterReadings
       ELSE now' = now
    /\ EditorFrame

\* the file the calls of the session change; a restore can go to any path
EditorPaths == {MAIN_PY}

\* the editor of a new project whose files can be written: with a backup
\* directory that works or not, with a clock that is fine or coarse
InitEditor == Init /\ git_ok /\ unwritable = {} /\ fs = [p \in Paths |-> NoFile]

EditorWriteFile ==
    /\ GitIdle
    /\ \E path \in EditorPaths, content \in Contents, create_backup \in BackupChoices :
            EditorDone("write", path, create_backup,
                       write_file(fs, backups, path, content, create_backup, 0,
                                  unwritable, backup_ok, Timestamp(Clock, 0)))

EditorCreateFile ==
    /\ GitIdle
    /\ \E path \in EditorPaths, content \in Contents :
            EditorDone("create", path, FALSE,
                       create_file(fs, backups, path, content, 0, unwritable))

EditorDeleteFile ==
    /\ GitIdle
    /\ \E path \in EditorPaths, create_backup \in BackupChoices :
            EditorDone("delete", path, create_backup,
                       delete_file(fs, backups, path, create_backup,
                                   unwritable, backup_ok, Timestamp(Clock, 0)))

EditorAppendToFile ==
    /\ GitIdle
    /\ \E path \in EditorPaths, content \in Contents, create_backup \in BackupChoices :
            /\ fs[path] # NoFile => fs[path] \o content \in Contents
            /\ EditorDone("append", path, create_backup,
                          append_to_file(fs, backups, path, content, create_backup,
                                         unwritable, backup_ok, Timestamp(Clock, 0)))

EditorReplaceInFile ==
    /\ GitIdle
    /\ \E path \in EditorPaths, old_text \in Letters, new_text \in Letters \cup {""},
           create_backup \in BackupChoices :
            EditorDone(IF old_text \in Range(LettersOf(read_file(fs, path)))
                       THEN "write" ELSE "replace", path, create_backup,
                       replace_in_file(fs, backups, path, old_text, new_text,
                                       create_backup, unwritable, backup_ok,
                                       Timestamp(Clock, 0)))

EditorRestoreFromBackup ==
    /\ GitIdle
    /\ \E path \in Paths,
           backup_path \in {BackupName(backups[k]) : k \in DOMAIN backups} \cup {NoBackup} :
            /\ fs' = restore_from_backup(fs, backups, backup_path, path, unwritable).fs
            /\ editor_call' =
                  [op |-> "restore", path |-> path, backup_name |-> backup_path,
                   after_write |-> /\ editor_call.op = "write"
                                   /\ editor_call.path = path
                                   /\ editor_call.backup_name = backup_path,
                   overwritten |-> fs[path]]
            /\ UNCHANGED <<backups, now>>
            /\ EditorFrame

NextEditor ==
    \/ EditorWriteFile
    \/ EditorCreateFile
    \/ EditorDeleteFile
    \/ EditorAppendToFile
    \/ EditorReplaceInFile
    \/ EditorRestoreFromBackup

EditorSpec == InitEditor /\ [][NextEditor]_vars

\* ------------------------------------------- the handling of a response
\* A response text is received, parse_code_blocks scans it, and
\* auto_create_files settles the filename of each block from the block and
\* from the user message. A text is held as its lines.
FenceLine == Fence

PyFence == Fence \o <<"p", "y">>

MdFence == Fence \o <<"m", "d">>

CodeLine == <<"x">>

\* first lines of a body: a comment that names main.py, a comment that names
\* no file, a comment of another language that names main.py
CommentLine == <<"#", " ", "m", "a", "i", "n", ".", "p", "y">>

PlainComment == <<"#", " ", "x">>

SlashComment == <<"/", "/", " ", "m", "a", "i", "n", ".", "p", "y">>

\* a comment whose text has a "." and is no valid name ("# my f.py")
SpacedComment == <<"#", " ", "m", "y", " ", "f", ".", "p", "y">>

EmptyLine == <<>>

\* "\n".join(lines)
RECURSIVE JoinLines(_)
JoinLines(lines) ==
    IF lines = <<>> THEN <<>>
    ELSE IF Len(lines) = 1 THEN lines[1]
    ELSE lines[1] \o <<NL>> \o JoinLines(Tail(lines))

\* the texts of at most MaxLines lines, each a fence or a line of code
FenceLines == {FenceLine, PyFence, MdFence, CodeLine}

FenceTexts == UNION {[1..n -> FenceLines] : n \in 1..MaxLines}

\* k inner blocks, each opened by a fence with a tag and closed by a bare one
RECURSIVE InnerBlocks(_)
InnerBlocks(k) ==
    IF k = 0 THEN <<>> ELSE <<PyFence, CodeLine, FenceLine>> \o InnerBlocks(k - 1)

\* a markdown block around at most MaxInner inner blocks, with or without
\* lines of its own around them
NestedTexts ==
    {<<MdFence>> \o own \o InnerBlocks(k) \o own \o <<FenceLine>> :
        k \in 0..MaxInner, own \in {<<>>, <<CodeLine>>}}

\* a single block whose body starts with a comment, closed or not
CommentTexts ==
    {<<open, first>> \o body \o close :
        open \in {PyFence, MdFence, FenceLine},
        first \in {CommentLine, PlainComment, SlashComment, SpacedComment},
        body \in {<<>>, <<CodeLine>>},
        close \in {<<>>, <<FenceLine>>}}

\* the responses: each text with and without a newline at its end
Responses ==
    {t \o nl : t \in FenceTexts \cup NestedTexts \cup CommentTexts,
               nl \in {<<>>, <<EmptyLine>>}}

\* the user messages: those of Mentions, and one that names two files and
\* holds "readme"
Messages == Mentions \cup {[files |-> <<README_MD, MAIN_PY>>, readme |-> TRUE]}

ScanFrame == UNCHANGED <<fs, backups, repo, env, now, editor_call, pc, responses,
                         name_vars, run_vars, walk_vars, last_approval,
                         successful_files, failed_files, idx, ret, oplog, commit_log,
                         display_log, read_log, printed, git_call>>

\* a new project in an environment where nothing fails
InitScan ==
    /\ Init
    /\ fs = EmptyTree
    /\ unwritable = {} /\ backup_ok /\ git_ok /\ ~coarse_clock

\* the response of the model arrives
ReceiveResponse ==
    /\ scan_pc = "idle"
    /\ \E t \in Responses : response' = t
    /\ scan_pc' = "received"
    /\ UNCHANGED <<parsed_blocks, user_message, targets, pending_proposals>>
    /\ ScanFrame

\* code_blocks = self.parse_code_blocks(response)
ParseCodeBlocks ==
    /\ scan_pc = "received"
    /\ parsed_blocks' = parse_code_blocks(JoinLines(response))
    /\ scan_pc' = "parsed"
    /\ UNCHANGED <<response, user_message, targets, pending_proposals>>
    /\ ScanFrame

\* auto_create_files(response, user_message): the filename of each block is
\* settled and the blocks that have one are proposed
AutoCreateFiles ==
    /\ scan_pc = "parsed"
    /\ \E m \in Messages :
          /\ user_message' = m
          /\ targets' = [k \in DOMAIN parsed_blocks |->
                            ResolveFilename(parsed_blocks[k], m.files, m.readme,
                                            Len(parsed_blocks))]
          /\ pending_proposals' =
                auto_create_files(parsed_blocks, 1,
                                  [queue |-> pending_proposals, shown |-> <<>>,
                                   reads |-> <<>>, files_proposed |-> 0],
                                  fs, m.files, m.readme).queue
    /\ scan_pc' = "resolved"
    /\ UNCHANGED <<response, parsed_blocks>>
    /\ ScanFrame

NextScan ==
    \/ ReceiveResponse
    \/ ParseCodeBlocks
    \/ AutoCreateFiles

ScanSpec == InitScan /\ [][NextScan]_vars

\* ----------------------------------------- a session from text to undo
\* A session of chat messages whose responses are texts: the response is
\* scanned and its files proposed (process_user_input), the batch is approved
\* or rejected, and "/revert" undoes the last commit.
PythonFence == Fence \o <<"p", "y", "t", "h", "o", "n">>

StatementLine == <<"p", "r", "i", "n", "t", "(", "1", ")">>

\* the responses of the session: a python block that names main.py in its
\* first line, with one body or another; a markdown block; a python block
\* without a filename; a python block and a markdown block
SessionResponses ==
    {<<PythonFence, CommentLine, StatementLine, FenceLine>>,
     <<PythonFence, CommentLine, CodeLine, FenceLine>>,
     <<MdFence, CodeLine, FenceLine>>,
     <<PythonFence, CodeLine, FenceLine>>,
     <<PythonFence, CommentLine, CodeLine, FenceLine, MdFence, StatementLine, FenceLine>>}

\* the working trees a session can start from: main.py absent, empty or with
\* content, README.md absent or with content
InitSession ==
    /\ Init
    /\ unwritable = {} /\ backup_ok /\ git_ok /\ ~coarse_clock

\* process_user_input, regular chat message: the response is scanned by
\* parse_code_blocks, auto_create_files proposes its files, and the user is
\* asked for approval when at least one file was proposed
SessionMessage ==
    /\ pc = "prompt"
    /\ responses < MaxTurns
    /\ responses' = responses + 1
    /\ \E t \in SessionResponses, m \in Messages :
        \E code_blocks \in {parse_code_blocks(JoinLines(t))} :
        \* the user message plays no part when every block carries a filename
        /\ (\A k \in 1..Len(code_blocks) : code_blocks[k].filename # None)
               => m = [files |-> <<>>, readme |-> FALSE]
        /\ response' = t
        /\ parsed_blocks' = code_blocks
        /\ user_message' = m
        /\ targets' = [k \in DOMAIN code_blocks |->
                          ResolveFilename(code_blocks[k], m.files, m.readme,
                                          Len(code_blocks))]
        /\ LET a == auto_create_files(code_blocks, 1,
                                      [queue |-> pending_proposals,
                                       shown |-> display_log,
                                       reads |-> read_log,
                                       files_proposed |-> 0],
                                      fs, m.files, m.readme)
           IN  /\ pending_proposals' = a.queue
               /\ display_log' = a.shown
               /\ read_log' = a.reads
               /\ printed' = IF a.files_proposed > 0
                             THEN DetectedLine(a.files_proposed) ELSE printed
               /\ pc' = IF a.files_proposed > 0 THEN "confirm" ELSE "returned"
    /\ scan_pc' = "resolved"
    /\ UNCHANGED <<fs, backups, repo, env, now, successful_files, failed_files, idx,
                   ret, oplog, commit_log, git_call, editor_call, name_vars,
                   run_vars, walk_vars, last_approval>>

NextSession ==
    \/ SessionMessage
    \/ ApproveProposal
    \/ RejectProposal
    \/ ShowResponse
    \/ UndoLastChange

SessionSpec == InitSession /\ [][NextSession]_vars

\* ------------------------------------- parse_code_blocks pass by pass
\* The loops of parse_code_blocks run one pass at a time over a text: the
\* outer loop moves i, the inner loop of a markdown block moves j and keeps
\* nesting_level.
\* a fence whose tag starts with a digit
DigitFence == Fence \o <<"1">>

\* a markdown block around an inner block that such a fence opens, with or
\* without lines of its own around it
DigitTexts ==
    {<<MdFence>> \o own \o <<DigitFence, CodeLine, FenceLine>> \o own \o <<FenceLine>> :
        own \in {<<>>, <<CodeLine>>}}

\* the texts of at most MaxWalkLines lines, each a fence or a line of code,
\* and the nested texts, with and without a newline at their end
WalkTexts ==
    {t \o nl : t \in UNION {[1..n -> FenceLines] : n \in 1..MaxWalkLines}
                      \cup NestedTexts \cup DigitTexts,
               nl \in {<<>>, <<EmptyLine>>}}

\* the text being scanned
Text == JoinLines(response)

WalkFrame == UNCHANGED <<session_vars, name_vars, run_vars, user_message, targets>>

InitWalk == InitScan

\* parse_code_blocks(text) is entered: "code_blocks = []", "i = 0"
StartScan ==
    /\ scan_pc = "idle"
    /\ response' \in WalkTexts
    /\ parsed_blocks' = <<>>
    /\ scan_i' = 0
    /\ scan_pc' = "outer"
    /\ UNCHANGED <<scan_j, scan_start, scan_level>>
    /\ WalkFrame

\* one pass of "while i < len(text)", up to the inner loop when the fence
\* at i opens a markdown block. The locals of the pass are bound as values,
\* each computed once.
OuterPass ==
    /\ scan_pc = "outer"
    /\ \E text \in {Text} :
        /\ scan_i < Len(text)
        /\ IF Slice(text, scan_i, scan_i + 3) # Fence
           THEN /\ scan_i' = scan_i + 1
                /\ UNCHANGED <<scan_pc, parsed_blocks, scan_j, scan_start, scan_level>>
           ELSE \E line_end \in {Find(text, <<NL>>, scan_i)} :
                IF line_end = -1
                THEN /\ scan_pc' = "done"
                     /\ UNCHANGED <<scan_i, parsed_blocks, scan_j, scan_start,
                                    scan_level>>
                ELSE \E language \in {LanguageTag(text, scan_i, line_end)},
                        content_start \in {line_end + 1} :
                     IF language \in {"markdown", "md"}
                     THEN /\ scan_start' = content_start
                          /\ scan_j' = content_start
                          /\ scan_level' = 0
                          /\ scan_pc' = "inner"
                          /\ UNCHANGED <<scan_i, parsed_blocks>>
                     ELSE \E at_line \in {Find(text, <<NL>> \o Fence, content_start)} :
                          \E closing \in {IF at_line = -1
                                          THEN Find(text, Fence, content_start)
                                          ELSE at_line} :
                          \E code \in {Slice(text, content_start,
                                             IF closing = -1 THEN Len(text)
                                             ELSE closing)} :
                             /\ scan_start' = content_start
                             /\ scan_j' = content_start
                             /\ parsed_blocks' =
                                   Append(parsed_blocks, CommentedBlock(language, code))
                             /\ scan_i' = IF closing = -1 THEN Len(text)
                                          ELSE closing + 4
                             /\ UNCHANGED <<scan_pc, scan_level>>
    /\ UNCHANGED response
    /\ WalkFrame

\* "while i < len(text)" is false: return code_blocks
OuterEnd ==
    /\ scan_pc = "outer"
    /\ scan_i >= Len(Text)
    /\ scan_pc' = "done"
    /\ UNCHANGED <<response, parsed_blocks, walk_vars>>
    /\ WalkFrame

\* one pass of "while j < len(text)"; at the closing fence the block is
\* appended, i moves past the fence and the outer loop goes on
InnerPass ==
    /\ scan_pc = "inner"
    /\ \E text \in {Text} :
        /\ scan_j < Len(text)
        /\ \E pass \in {MarkdownStep(text, scan_start, scan_j, scan_level)} :
           IF pass.closed
           THEN \E code \in {Slice(text, scan_start, scan_j)} :
                /\ parsed_blocks' =
                      Append(parsed_blocks,
                             [language |->
                                  LanguageTag(text, scan_i, Find(text, <<NL>>, scan_i)),
                              code |-> Join(Strip(code)),
                              filename |-> None])
                /\ scan_i' = scan_j + 3
                /\ scan_pc' = "outer"
                /\ UNCHANGED <<scan_j, scan_level>>
           ELSE /\ scan_j' = pass.j
                /\ scan_level' = pass.nesting_level
                /\ UNCHANGED <<scan_pc, scan_i, parsed_blocks>>
    /\ UNCHANGED <<response, scan_start>>
    /\ WalkFrame

\* "while j < len(text)" is false, "if j >= len(text)": the rest of the text
\* is the block, and the outer loop is left
InnerEnd ==
    /\ scan_pc = "inner"
    /\ \E text \in {Text} :
        /\ scan_j >= Len(text)
        /\ \E code \in {Slice(text, scan_start, Len(text))} :
           parsed_blocks' =
              Append(parsed_blocks,
                     [language |-> LanguageTag(text, scan_i, Find(text, <<NL>>, scan_i)),
                      code |-> Join(Strip(code)),
                      filename |-> None])
    /\ scan_pc' = "done"
    /\ UNCHANGED <<response, walk_vars>>
    /\ WalkFrame

NextWalk ==
    \/ StartScan
    \/ OuterPass
    \/ OuterEnd
    \/ InnerPass
    \/ InnerEnd

WalkSpec == InitWalk /\ [][NextWalk]_vars

\* the interpreter runs the function it entered: a pass that can be taken
\* is taken
FairWalkSpec == WalkSpec /\ WF_vars(NextWalk)

\* the passes build what parse_code_blocks returns
WalkAgrees == scan_pc = "done" => parsed_blocks = parse_code_blocks(Text)

\* ------------------------------------------ _is_valid_filename on its own
\* The validator is called on a name: at most MaxShort characters among a
\* letter, the separators and the characters the validator looks for, then
\* a run of letters that brings the length near MaxNameLen or no run at all.
NameChars == {"a", ".", "/", " "} \cup InvalidChars

ShortNames == UNION {[1..n -> NameChars] : n \in 0..MaxShort}

Pad(n) == [k \in 1..n |-> "a"]

PadLengths == {0} \cup ((MaxNameLen - MaxShort - 1)..(MaxNameLen + 1))

Names == {short \o Pad(n) : short \in ShortNames, n \in PadLengths}

NameFrame == UNCHANGED <<session_vars, scan_vars, run_vars, walk_vars>>

\* auto_create_files reaches "if not self._is_valid_filename(filename)"
CallIsValidFilename ==
    /\ valid_ret = "none"
    /\ filename_arg' \in Names
    /\ valid_ret' = "called"
    /\ NameFrame

\* the validator returns
ReturnIsValidFilename ==
    /\ valid_ret = "called"
    /\ valid_ret' = IF _is_valid_filename(filename_arg) THEN "True" ELSE "False"
    /\ UNCHANGED filename_arg
    /\ NameFrame

NextName ==
    \/ CallIsValidFilename
    \/ ReturnIsValidFilename

\* the validator reads nothing but its argument: a new project where nothing
\* fails stands for every session
InitName == InitScan

NameSpec == InitName /\ [][NextName]_vars

\* ------------------------------------------------------- the loop of run
\* Each pass of the loop of run prompts for a line. The prompt returns a
\* line, or raises KeyboardInterrupt (Ctrl-C) or EOFError (Ctrl-D);
\* process_user_input, which handles the line, can be left by a Ctrl-C too.
\* What process_user_input does to the proposals is the subject of Spec; it
\* never touches eof_count.
\* a loop that keeps the count of EOFs when a line is entered
ResetEofCount_keeps(count) == count

\* "self.eof_count = 0"
ResetEofCount(count) == 0

\* "self.eof_count += 1"
CountEof(count) == count + 1

\* "if self.eof_count == 1: ... continue / else: ... break"
ExitOnEof(count) == count # 1

RunFrame == UNCHANGED <<session_vars, scan_vars, name_vars, walk_vars>>

Prompting == run_pc = "prompt" /\ Len(events) < MaxEvents

\* the prompt returns a line that is no quit command and the line is handled
RunLine ==
    /\ Prompting
    /\ eof_count' = ResetEofCount(eof_count)
    /\ events' = Append(events, "line")
    /\ UNCHANGED run_pc
    /\ RunFrame

\* the prompt returns /quit or /exit: process_user_input returns "QUIT"
RunQuit ==
    /\ Prompting
    /\ eof_count' = ResetEofCount(eof_count)
    /\ events' = Append(events, "quit")
    /\ run_pc' = "exited"
    /\ RunFrame

\* Ctrl-C at the prompt
RunInterrupt ==
    /\ Prompting
    /\ eof_count' = ResetEofCount(eof_count)
    /\ events' = Append(events, "ctrl_c")
    /\ UNCHANGED run_pc
    /\ RunFrame

\* the prompt returns a line and a Ctrl-C leaves process_user_input: the
\* counter is reset after the prompt and again by the handler of the
\* interrupt
RunInterruptedLine ==
    /\ Prompting
    /\ eof_count' = ResetEofCount(ResetEofCount(eof_count))
    /\ events' = Append(events, "line_ctrl_c")
    /\ UNCHANGED run_pc
    /\ RunFrame

\* Ctrl-D at the prompt
RunEOF ==
    /\ Prompting
    /\ eof_count' = CountEof(eof_count)
    /\ events' = Append(events, "eof")
    /\ run_pc' = IF ExitOnEof(CountEof(eof_count)) THEN "exited" ELSE "prompt"
    /\ RunFrame

NextRun ==
    \/ RunLine
    \/ RunQuit
    \/ RunInterrupt
    \/ RunInterruptedLine
    \/ RunEOF

InitRun == InitScan

RunSpec == InitRun /\ [][NextRun]_vars

TypeOK ==
    /\ fs \in [Paths -> Codes \cup {NoFile}]
    /\ pc \in {"prompt", "confirm", "returned"}
    /\ ret \in {"none", "True", "False", "None", "raise"}

\* ------------------------------------------------------------ vocabulary
\* approve_proposal has run its loop; display_log holds the batch it applied
Approved == pc = "returned" /\ idx > 0

Batch == 1..Len(display_log)

\* the positions in oplog of the operations issued for proposal n
OpsOf(n) == {i \in DOMAIN oplog : oplog[i].n = n}

\* operation i replaced or created the content of its file
Wrote(i) == oplog[i].op \in {"create", "write"} /\ oplog[i].ok

\* some operation issued for proposal n put its new content on disk
Succeeded(n) == \E i \in OpsOf(n) : Wrote(i)

\* create_file was called for a path that exists
CreateOnExisting(i) == oplog[i].op = "create" /\ oplog[i].prev # NoFile

Count(seq, p) == Cardinality({k \in DOMAIN seq : seq[k] = p})

NoDuplicates(seq) == \A j, k \in DOMAIN seq : j # k => seq[j] # seq[k]

Last(S) == CHOOSE n \in S : \A m \in S : m <= n

\* the paths of the proposals that succeeded (ok) or failed (~ok), in batch order
RECURSIVE PathSeq(_, _)
PathSeq(k, ok) ==
    IF k > Len(display_log) THEN <<>>
    ELSE (IF Succeeded(k) = ok THEN <<display_log[k].file_path>> ELSE <<>>)
         \o PathSeq(k + 1, ok)

\* ------------------------------------------------------------------ C1
\* C1: approve_proposal attempts every queued proposal exactly once, also
\* after earlier proposals failed, and records each in exactly one of
\* successful_files and failed_files, so that the two lengths add up to the
\* length of the queue.
C1_EveryProposalAttemptedOnce ==
    Approved =>
        /\ Len(successful_files) + Len(failed_files) = Len(display_log)
        /\ successful_files = PathSeq(1, TRUE)
        /\ failed_files = PathSeq(1, FALSE)
        /\ \A n \in Batch :
              Cardinality({i \in OpsOf(n) : i = 1 \/ oplog[i - 1].n # n}) = 1

\* a batch in which a proposal succeeded after an earlier one had failed
C1_Witness ==
    /\ Approved
    /\ \E m, n \in Batch : m < n /\ ~Succeeded(m) /\ Succeeded(n)

\* ------------------------------------------------------------------ C2
\* C2: proposals are applied one after another in the order they were
\* pushed, which is the order of their displayed numbers: the operations of
\* an earlier proposal all precede those of a later one, and the n-th one
\* applied is the proposal displayed as number n.
C2_AppliedInPushOrder ==
    /\ \A k \in Batch : display_log[k].number = k
    /\ pc = "confirm" =>
          /\ Len(pending_proposals) = Len(display_log)
          /\ \A k \in Batch :
                /\ pending_proposals[k].file_path = display_log[k].file_path
                /\ pending_proposals[k].new_content = display_log[k].new_content
    /\ Approved =>
          /\ \A i, j \in DOMAIN oplog : i < j => oplog[i].n <= oplog[j].n
          /\ \A i \in DOMAIN oplog :
                /\ oplog[i].n \in Batch
                /\ oplog[i].path = display_log[oplog[i].n].file_path
                /\ oplog[i].op # "backup" =>
                      oplog[i].content = display_log[oplog[i].n].new_content

\* two proposals with different contents were applied, the first one first
C2_Witness ==
    /\ Approved
    /\ Len(display_log) >= 2
    /\ display_log[1].new_content # display_log[2].new_content
    /\ \E i, j \in DOMAIN oplog : i < j /\ oplog[i].n = 1 /\ oplog[j].n = 2

\* ------------------------------------------------------------------ C3
\* C3: several proposals of one batch for the same path, all applied
\* successfully, stay separate entries, and the file ends with the
\* new_content of the last of them in queue order.
C3_LastProposalForPathWins ==
    Approved =>
        \A p \in Paths :
            LET ns == {n \in Batch : display_log[n].file_path = p}
            IN  (Cardinality(ns) >= 2 /\ \A n \in ns : Succeeded(n)) =>
                    /\ fs[p] = display_log[Last(ns)].new_content
                    /\ Count(successful_files, p) = Cardinality(ns)

\* two proposals for one path, with different contents, both applied: as
\* creations, or as updates
C3_Witness ==
    /\ Approved
    /\ \E m, n \in Batch :
          /\ m < n
          /\ display_log[m].file_path = display_log[n].file_path
          /\ display_log[m].new_content # display_log[n].new_content
          /\ display_log[m].current_content = ""
          /\ Succeeded(m) /\ Succeeded(n)

C5_CreateFallsBackToWrite ==
    Approved =>
        /\ \A n \in Batch :
              display_log[n].current_content = "" =>
                  \E i \in OpsOf(n) :
                      /\ oplog[i].op = "create"
                      /\ \A j \in OpsOf(n) : i <= j
        /\ \A i \in DOMAIN oplog :
              CreateOnExisting(i) =>
                  /\ ~oplog[i].ok
                  /\ i < Len(oplog)
                  /\ oplog[i + 1].op = "write"
                  /\ oplog[i + 1].n = oplog[i].n
                  /\ oplog[i + 1].path = oplog[i].path
                  /\ oplog[i + 1].prev = oplog[i].prev
                  /\ oplog[i + 1].content = display_log[oplog[i].n].new_content
                  /\ \A j \in OpsOf(oplog[i].n) : oplog[j].op # "backup"
                  /\ oplog[i + 1].ok =>
                        /\ Count(successful_files, oplog[i].path) =
                              Cardinality({n \in Batch :
                                  /\ display_log[n].file_path = oplog[i].path
                                  /\ Succeeded(n)})
                        /\ Count(successful_files, oplog[i].path) >= 1
                        /\ (\A j \in DOMAIN oplog :
                               (j > i + 1 /\ oplog[j].path = oplog[i].path) => ~Wrote(j))
                              => fs[oplog[i].path] = oplog[i + 1].content

\* a create proposal met an existing file and its fallback write succeeded
C5_Witness ==
    /\ Approved
    /\ \E i \in DOMAIN oplog :
          /\ CreateOnExisting(i)
          /\ i < Len(oplog)
          /\ oplog[i + 1].ok
          /\ oplog[i].prev # oplog[i + 1].content
          /\ fs[oplog[i].path] = oplog[i + 1].content

\* ------------------------------------------------------------------ C6
\* C6 as stated: a create proposal whose target exists at apply time is
\* recorded in failed_files and not in successful_files, and the proposals
\* after it are still applied.
C6_ExistingTargetIsFailure ==
    Approved =>
        \A i \in DOMAIN oplog :
            CreateOnExisting(i) =>
                /\ oplog[i].path \in Range(failed_files)
                /\ oplog[i].path \notin Range(successful_files)
                /\ \A m \in Batch : m > oplog[i].n => OpsOf(m) # {}

\* C6 as amended: for a create proposal whose target exists at apply time
\* the fallback write decides: the path is recorded in failed_files when
\* that write fails and in successful_files when it succeeds, and the
\* proposals after it are applied either way.
C6_ExistingTargetFailsOnlyWithWrite ==
    Approved =>
        \A i \in DOMAIN oplog :
            CreateOnExisting(i) =>
                LET n == oplog[i].n
                    p == oplog[i].path
                    forP == {m \in Batch : display_log[m].file_path = p}
                IN  /\ \E j \in OpsOf(n) : oplog[j].op = "write"
                    /\ Succeeded(n) <=> \E j \in OpsOf(n) : oplog[j].op = "write" /\ oplog[j].ok
                    /\ Count(failed_files, p) = Cardinality({m \in forP : ~Succeeded(m)})
                    /\ Count(successful_files, p) = Cardinality({m \in forP : Succeeded(m)})
                    /\ \A m \in Batch : m > n => OpsOf(m) # {}

\* a create proposal met an existing file that could not be written, was
\* recorded as failed, and a later proposal was applied successfully
C6_Witness ==
    /\ Approved
    /\ \E i \in DOMAIN oplog :
          /\ CreateOnExisting(i)
          /\ ~Succeeded(oplog[i].n)
          /\ oplog[i].path \in Range(failed_files)
          /\ \E m \in Batch : m > oplog[i].n /\ Succeeded(m)

\* ------------------------------------------------------------------ C7
\* C7: one approve_proposal call requests at most one commit: exactly one
\* when a proposal succeeded, staging exactly the succeeded paths, and none
\* when every proposal failed; a path recorded only as failed is not staged.
C7_OneCommitOfSucceededPaths ==
    Approved =>
        /\ Len(commit_log) <= 1
        /\ (Len(commit_log) = 1) <=> (successful_files # <<>>)
        /\ Len(commit_log) = 1 =>
              /\ Range(commit_log[1].files) = Range(successful_files)
              /\ \A p \in Paths :
                    IF p \in Range(successful_files)
                    THEN commit_log[1].index_after[p] = fs[p]
                    ELSE commit_log[1].index_after[p] = commit_log[1].index_before[p]

\* one commit was requested for a batch with a succeeded path and a path that
\* only failed, whose file differs from what the index holds
C7_Witness ==
    /\ Approved
    /\ Len(commit_log) = 1
    /\ \E p \in Range(failed_files) :
          /\ p \notin Range(successful_files)
          /\ fs[p] # commit_log[1].index_after[p]

\* ------------------------------------------------------------------ C8
\* C8: after any approval successful_files and failed_files are disjoint
\* sets: no path is in both, and no path occurs twice in either.
C8_DisjointSets ==
    Approved =>
        /\ Range(successful_files) \cap Range(failed_files) = {}
        /\ NoDuplicates(successful_files)
        /\ NoDuplicates(failed_files)

\* ------------------------------------------------------------------ C9
\* C9: the message of the batch commit is "Applied changes to N file(s)"
\* with N the number of distinct files the approval wrote.
C9_MessageCountsDistinctFiles ==
    (Approved /\ commit_log # <<>>) =>
        commit_log[1].message =
            "Applied changes to "
                \o ToString(Cardinality(Range(successful_files)))
                \o " file(s)"

\* ------------------------------------------------------------------ C10
\* C10: when the commit of an approval fails nothing is rolled back: every
\* file the batch wrote keeps its new content, approve_proposal still
\* returns True, and the queue is cleared.
C10_FailedCommitRollsNothingBack ==
    (Approved /\ commit_log # <<>> /\ ~commit_log[1].ok) =>
        /\ ret = "True"
        /\ pending_proposals = <<>>
        /\ \A p \in Paths :
              LET ws == {i \in DOMAIN oplog : oplog[i].path = p /\ Wrote(i)}
              IN  ws # {} => fs[p] = oplog[Last(ws)].content

\* the commit of a batch that wrote a file failed
C10_Witness ==
    /\ Approved
    /\ commit_log # <<>>
    /\ ~commit_log[1].ok
    /\ \E i \in DOMAIN oplog : Wrote(i) /\ fs[oplog[i].path] # oplog[i].prev

\* ------------------------------------------------------------------ C12
\* C12: when approve_proposal or reject_proposal has returned the pending
\* queue is empty, whatever succeeded or failed during the apply and whether
\* or not the commit succeeded.
C12_QueueEmptyAfterDecision ==
    (pc = "returned" /\ ret \in {"True", "False", "None"}) =>
        pending_proposals = <<>>

\* an approval returned after one proposal had failed and another succeeded
C12_Witness ==
    /\ Approved
    /\ successful_files # <<>>
    /\ failed_files # <<>>
    /\ pending_proposals = <<>>

C14_RejectTouchesOnlyQueue ==
    [][RejectProposal => UNCHANGED <<fs, backups, repo>>]_vars

\* a queue was rejected whose proposal would have changed an existing file
C14_Witness ==
    /\ pc = "returned"
    /\ ret = "None"
    /\ \E k \in Batch :
          /\ fs[display_log[k].file_path] # NoFile
          /\ fs[display_log[k].file_path] # display_log[k].new_content

\* ------------------------------------------------------------------ C15
\* C15: reject_proposal on an empty queue raises nothing and leaves all
\* state as it is, and every rejection leaves the queue empty, so that a
\* second rejection in a row changes nothing.
C15_RejectOnEmptyIsNoOp ==
    [][RejectProposal =>
          /\ pending_proposals' = <<>>
          /\ pending_proposals = <<>> =>
                /\ UNCHANGED <<fs, backups, repo, pending_proposals>>
                /\ ret' = "None"
                /\ printed' = "No pending proposals to reject"]_vars

\* reject_proposal returned from a call on an empty queue
C15_Witness ==
    /\ pc = "returned"
    /\ ret = "None"
    /\ printed = "No pending proposals to reject"
    /\ pending_proposals = <<>>

\* ------------------------------------------------------------------ C16
\* C16: a proposal made from a response has empty current_content exactly
\* when its target file does not exist at proposal time, and a proposal
\* whose target exists carries the content of the file as current_content.
C16_EmptyCurrentContentIffAbsent ==
    pc = "confirm" =>
        \A k \in DOMAIN pending_proposals :
            LET p == pending_proposals[k]
            IN  /\ (p.current_content = "") <=> (fs[p.file_path] = NoFile)
                /\ fs[p.file_path] # NoFile => p.current_content = fs[p.file_path]

\* ------------------------------------------------------------------ C17
\* C17: every proposal auto_create_files pushes has a file_path the
\* validator accepts and a non-empty new_content; a file is read only for a
\* name the validator accepted; and the number auto_create_files returns is
\* the number of proposals it pushed.
C17_OnlyValidatedBlocksProposed ==
    /\ \A k \in Batch :
          /\ _is_valid_filename(Chars[display_log[k].file_path])
          /\ display_log[k].new_content # ""
    /\ \A k \in DOMAIN pending_proposals :
          /\ _is_valid_filename(Chars[pending_proposals[k].file_path])
          /\ pending_proposals[k].new_content # ""
    /\ \A k \in DOMAIN read_log : _is_valid_filename(Chars[read_log[k]])
    /\ read_log = [k \in Batch |-> display_log[k].file_path]
    /\ pc = "confirm" => printed = DetectedLine(Len(pending_proposals))
    /\ (pc = "returned" /\ ret = "none") => display_log = <<>>

\* auto_create_files pushed two proposals and returned 2
C17_Witness ==
    /\ pc = "confirm"
    /\ Len(pending_proposals) = 2
    /\ Len(read_log) = 2
    /\ printed = DetectedLine(2)

\* ------------------------------------------------------------------ C11
\* C11: commit_changes returns False and adds no commit whenever the index
\* is identical to HEAD after the staging, in the stage-everything form and
\* in the form given a list of files.
C11_NothingToCommitIsRefused ==
    [][((CommitFiles \/ CreateSnapshot) /\ repo'.index = HeadTree(repo)) =>
          /\ ~git_call'.ok
          /\ repo'.history = repo.history]_vars

\* ------------------------------------------------------------------ C18
\* C18: a revert that fails returns False and leaves HEAD, the history and
\* every file of the working tree as they were; revert_to_commit fails on a
\* reference that names no commit and undo_last_change on a repository that
\* has only its root commit.
C18_FailedRevertChangesNothing ==
    [][(RevertToCommit \/ UndoLastChange) =>
          /\ (git_call'.op = "revert" /\ git_call'.arg \notin CommitRefs(repo))
                => ~git_call'.ok
          /\ (git_call'.op = "undo" /\ Len(repo.history) < 2) => ~git_call'.ok
          /\ ~git_call'.ok => UNCHANGED <<fs, repo>>]_vars

\* a revert to an unknown reference failed on a working tree that holds a
\* change not yet committed
C18_Witness ==
    /\ git_call.op = "revert"
    /\ git_call.arg = InvalidRef
    /\ ~git_call.ok
    /\ Len(repo.history) >= 2
    /\ \E p \in Paths : HeadTree(repo)[p] # NoFile /\ fs[p] # HeadTree(repo)[p]

\* ------------------------------------------------------------------ C19
\* C19: with at least two commits in the history undo_last_change succeeds,
\* makes the parent of the former HEAD the new HEAD, and leaves every
\* tracked file with the content it has in that parent.
C19_UndoRestoresParent ==
    [][(UndoLastChange /\ Len(repo.history) >= 2) =>
          /\ git_call'.ok
          /\ repo'.history = SubSeq(repo.history, 1, Len(repo.history) - 1)
          /\ repo'.index = HeadTree(repo')
          /\ \A p \in Paths :
                HeadTree(repo')[p] # NoFile => fs'[p] = HeadTree(repo')[p]]_vars

\* an undo went back to a parent that holds a file with another content than
\* the former HEAD
C19_Witness ==
    /\ git_call.op = "undo"
    /\ git_call.ok
    /\ Len(repo.history) = git_call.len_before - 1
    /\ \E p \in Paths :
          /\ HeadTree(repo)[p] # NoFile
          /\ git_call.head_before[p] # HeadTree(repo)[p]
          /\ fs[p] = HeadTree(repo)[p]

\* ------------------------------------------------------------------ C20
\* C20: revert_to_commit with the reference of any entry of the history
\* succeeds, makes that commit HEAD, and leaves every tracked file with the
\* content it has in that commit.
C20_RevertRestoresCommit ==
    [][(RevertToCommit /\ git_call'.arg \in CommitRefs(repo)) =>
          /\ git_call'.ok
          /\ repo'.history = SubSeq(repo.history, 1, git_call'.arg)
          /\ repo'.index = HeadTree(repo')
          /\ \A p \in Paths :
                HeadTree(repo')[p] # NoFile => fs'[p] = HeadTree(repo')[p]]_vars

\* a revert went back to an entry of the history that holds a file with
\* another content than the former HEAD
C20_Witness ==
    /\ git_call.op = "revert"
    /\ git_call.ok
    /\ git_call.arg < git_call.len_before
    /\ \E p \in Paths :
          /\ HeadTree(repo)[p] # NoFile
          /\ git_call.head_before[p] # HeadTree(repo)[p]
          /\ fs[p] = HeadTree(repo)[p]

\* ------------------------------------------------------------------ C21
\* C21: the history is append-only: a commit that is in the history is in
\* the history after every later snapshot, commit, revert_to_commit and
\* undo_last_change.
C21_HistoryAppendOnly ==
    [][\A k \in DOMAIN repo.history :
          /\ k \in DOMAIN repo'.history
          /\ repo'.history[k] = repo.history[k]]_vars

\* ------------------------------------------------------------------ C22
\* C22: every backup-enabled write to an existing file creates exactly one
\* new backup file, named after the file, that holds the content the file had
\* before the write, and replaces no earlier backup.
C22_EachWriteAddsOneBackup ==
    [][editor_call'.op = "write" =>
          /\ Len(backups') = Len(backups) + 1
          /\ backups'[Len(backups')].path = editor_call'.path
          /\ backups'[Len(backups')].content = fs[editor_call'.path]
          /\ \A k \in DOMAIN backups : backups'[k] = backups[k]]_vars

\* ------------------------------------------------------------------ C23
\* C23: a restore_from_backup that follows a backup-enabled write_file to
\* an existing file, from the backup that write created and onto the file
\* it wrote, makes the content of the file what it was before the write.
C23_RestoreAfterWriteRoundTrip ==
    [][(/\ editor_call.op = "write"
        /\ \E k \in DOMAIN backups : BackupName(backups[k]) = editor_call.backup_name
        /\ editor_call'.op = "restore"
        /\ editor_call'.path = editor_call.path
        /\ editor_call'.backup_name = editor_call.backup_name)
          => fs'[editor_call.path] = editor_call.prev]_vars

\* a restore took the backup of the write just before it back to the file
\* that write had changed, and changed the file again
C23_Witness ==
    /\ editor_call.op = "restore"
    /\ editor_call.after_write
    /\ editor_call.overwritten # fs[editor_call.path]

\* ------------------------------------------------------------------ C24
\* C24: a backup file is never deleted or altered: over every call of the
\* FileEditor the backups there are stay, each with its content.
C24_BackupsOnlyGrow ==
    [][\A k \in DOMAIN backups :
          /\ k \in DOMAIN backups'
          /\ backups'[k] = backups[k]]_vars

\* ------------------------------------------- vocabulary of the scanner
\* parse_code_blocks has returned
Scanned == scan_pc \in {"parsed", "resolved"}

\* the lines of the response, without the empty one a final newline makes
TextLines ==
    IF response # <<>> /\ response[Len(response)] = EmptyLine
    THEN SubSeq(response, 1, Len(response) - 1) ELSE response

IsFence(line) == Len(line) >= 3 /\ SubSeq(line, 1, 3) = Fence

TagOf(line) == Strip(SubSeq(line, 4, Len(line)))

IsBare(line) == IsFence(line) /\ TagOf(line) = <<>>

IsTagged(line) == IsFence(line) /\ TagOf(line) # <<>>

LanguageOf(line) == IF IsBare(line) THEN "text" ELSE Join(TagOf(line))

IsMarkdown(line) == LanguageOf(line) \in {"markdown", "md"}

\* the bare fence that closes a markdown block, looked for from line j at
\* depth inner blocks; 0 when there is none
RECURSIVE MarkdownClose(_, _, _)
MarkdownClose(lines, j, depth) ==
    IF j > Len(lines) THEN 0
    ELSE IF IsTagged(lines[j]) THEN MarkdownClose(lines, j + 1, depth + 1)
    ELSE IF IsBare(lines[j])
    THEN IF depth > 0 THEN MarkdownClose(lines, j + 1, depth - 1) ELSE j
    ELSE MarkdownClose(lines, j + 1, depth)

\* the line that closes the block opened at line k: for a markdown block
\* the bare fence at depth 0, for another block the next fence if it is
\* bare; 0 when the block is not closed that way
CloseOf(lines, k) ==
    IF IsMarkdown(lines[k]) THEN MarkdownClose(lines, k + 1, 0)
    ELSE LET later == {c \in (k + 1)..Len(lines) : IsFence(lines[c])}
             first == CHOOSE c \in later : \A d \in later : c <= d
         IN  IF later = {} THEN 0
             ELSE IF IsBare(lines[first]) THEN first ELSE 0

\* the top-level fence pairs of the lines from line k on, after those of acc
RECURSIVE TopLevelPairs(_, _, _)
TopLevelPairs(lines, k, acc) ==
    IF k > Len(lines) THEN [balanced |-> TRUE, pairs |-> acc]
    ELSE IF ~IsFence(lines[k]) THEN TopLevelPairs(lines, k + 1, acc)
    ELSE IF CloseOf(lines, k) = 0 THEN [balanced |-> FALSE, pairs |-> acc]
    ELSE TopLevelPairs(lines, CloseOf(lines, k) + 1,
                       Append(acc, [open |-> k, close |-> CloseOf(lines, k)]))

Pairs == TopLevelPairs(TextLines, 1, <<>>)

BodyOf(pair) == SubSeq(TextLines, pair.open + 1, pair.close - 1)

\* the number of fences with a tag among the lines
Tagged(lines) == Cardinality({k \in DOMAIN lines : IsTagged(lines[k])})

\* the text is one markdown block, closed, with properly fenced inner blocks
OneMarkdownBlock ==
    /\ TextLines # <<>>
    /\ IsMarkdown(TextLines[1])
    /\ Pairs.balanced
    /\ Pairs.pairs = <<[open |-> 1, close |-> Len(TextLines)]>>

C26_OneBlockPerTopLevelPair ==
    (Scanned /\ Pairs.balanced) =>
        /\ Len(parsed_blocks) = Len(Pairs.pairs)
        /\ \A p \in DOMAIN Pairs.pairs :
              /\ parsed_blocks[p].language =
                    LanguageOf(TextLines[Pairs.pairs[p].open])
              /\ parsed_blocks[p].code =
                    IF IsMarkdown(TextLines[Pairs.pairs[p].open])
                    THEN Join(Strip(JoinLines(BodyOf(Pairs.pairs[p]))))
                    ELSE CommentedBlock("", JoinLines(BodyOf(Pairs.pairs[p]))).code

\* ------------------------------------------------------------------ C27
\* C27: an empty fence pair, an opening fence line with a closing fence line
\* right after it, yields a block with empty content, wherever it stands.
C27_EmptyPairIsEmptyBlock ==
    (Scanned /\ Pairs.balanced) =>
        \A p \in DOMAIN Pairs.pairs :
            Pairs.pairs[p].close = Pairs.pairs[p].open + 1 =>
                /\ p \in DOMAIN parsed_blocks
                /\ parsed_blocks[p].code = ""

\* ------------------------------------------------------------------ C28
\* C28: an opening fence with no closing fence yields a block whose content
\* is the trimmed remainder of the text after the opening fence line, also
\* when that line is the last of the text.
C28_UnclosedFenceRunsToEnd ==
    (Scanned /\ \E k \in DOMAIN TextLines :
                   /\ IsFence(TextLines[k])
                   /\ \A l \in DOMAIN TextLines : l # k => ~IsFence(TextLines[l]))
        => LET k == CHOOSE l \in DOMAIN TextLines : IsFence(TextLines[l])
               rest == JoinLines(SubSeq(response, k + 1, Len(response)))
           IN  /\ Len(parsed_blocks) = 1
               /\ parsed_blocks[1].language = LanguageOf(TextLines[k])
               /\ parsed_blocks[1].code =
                     IF IsMarkdown(TextLines[k]) THEN Join(Strip(rest))
                     ELSE CommentedBlock("", rest).code

\* ------------------------------------------------------------------ C29
\* a line that starts with the comment marker "#" and names a path
IsPathComment(line) ==
    /\ line # <<>> /\ line[1] = "#"
    /\ (Has(LStrip(line, "#"), ".") \/ Has(LStrip(line, "#"), "/"))

\* the text is a single block that is not markdown, closed or not, whose
\* first body line is a comment naming a path
OneCommentedBlock ==
    /\ Len(TextLines) >= 2
    /\ IsFence(TextLines[1]) /\ ~IsMarkdown(TextLines[1])
    /\ IsPathComment(TextLines[2])
    /\ \A k \in 3..Len(TextLines) :
          IsFence(TextLines[k]) => (k = Len(TextLines) /\ IsBare(TextLines[k]))

\* the lines of that block after the comment
CommentedBody ==
    SubSeq(TextLines, 3,
           IF IsFence(TextLines[Len(TextLines)])
           THEN Len(TextLines) - 1 ELSE Len(TextLines))

RuleTarget(block) ==
    IF Len(parsed_blocks) = 1 /\ user_message.files # <<>>
    THEN user_message.files[1]
    ELSE IF block.language \in {"markdown", "md"} /\ user_message.files # <<>>
    THEN user_message.files[1]
    ELSE IF block.language \in {"markdown", "md"} /\ user_message.readme
    THEN README_MD
    ELSE None

\* C30: a block without a filename from the scanner gets its target from
\* the first rule that matches: the first mentioned file when the response
\* has one block, the first mentioned file when the block is markdown,
\* README.md when the block is markdown and the message holds "readme", and
\* otherwise none, and then no proposal is made for it.
C30_TargetByFirstMatchingRule ==
    scan_pc = "resolved" =>
        /\ \A k \in DOMAIN parsed_blocks :
              parsed_blocks[k].filename = None =>
                  targets[k] = RuleTarget(parsed_blocks[k])
        /\ Len(pending_proposals)
              <= Cardinality({k \in DOMAIN targets : targets[k] # None})

\* of two blocks without a filename the markdown block went to README.md by
\* the third rule, the other got no target, and one proposal was made
C30_Witness ==
    /\ scan_pc = "resolved"
    /\ user_message.files = <<>> /\ user_message.readme
    /\ \E k, l \in DOMAIN parsed_blocks :
          /\ parsed_blocks[k].filename = None /\ targets[k] = README_MD
          /\ parsed_blocks[l].filename = None /\ targets[l] = None
    /\ Len(pending_proposals) = 1
\* ------------------------------------------------------------------ C31
\* the four grounds on which a name is turned down
NoDotNoSlash(name) == "." \notin Range(name) /\ "/" \notin Range(name)

HasSpace(name) == " " \in Range(name)

TooLong(name) == Len(name) > 200

HasForbidden(name) == Range(name) \cap {"<", ">", "|", ":", "*", "?", "\""} # {}

\* C31: _is_valid_filename rejects a name exactly when it has neither "." nor
\* "/", or has a space, or is longer than 200 characters, or has one of
\* < > | : * ? "; every other name, one of exactly 200 characters included,
\* is accepted.
C31_RejectedExactlyOnFourGrounds ==
    valid_ret \in {"True", "False"} =>
        (valid_ret = "False" <=>
            \/ NoDotNoSlash(filename_arg)
            \/ HasSpace(filename_arg)
            \/ TooLong(filename_arg)
            \/ HasForbidden(filename_arg))

\* a name of exactly 200 characters was accepted
C31_Witness ==
    /\ valid_ret = "True"
    /\ Len(filename_arg) = 200

\* ------------------------------------------------------------------ C33
\* C33: approve_proposal returns True if and only if every queued proposal
\* was applied successfully; it returns False on an empty queue and when any
\* proposal failed.
C33_TrueIffAllApplied ==
    (pc = "returned" /\ ret \in {"True", "False"}) =>
        (ret = "True" <=> (idx > 0 /\ failed_files = <<>>))

\* ------------------------------------------------------------------ C35
\* C35: an update proposal (non-empty current_content) whose target exists
\* when it is applied replaces the content of the file only after a backup
\* of the previous content was successfully created in the same step.
C35_UpdateOnlyAfterBackup ==
    Approved =>
        \A i \in DOMAIN oplog :
            (/\ Wrote(i) /\ oplog[i].op = "write" /\ oplog[i].prev # NoFile
             /\ display_log[oplog[i].n].current_content # "") =>
                /\ i > 1
                /\ oplog[i - 1].op = "backup"
                /\ oplog[i - 1].n = oplog[i].n
                /\ oplog[i - 1].ok
                /\ \E k \in DOMAIN backups :
                      /\ backups[k].path = oplog[i].path
                      /\ backups[k].stamp = oplog[i - 1].stamp

\* ------------------------------------------------------------------ C34
\* the last thing the prompts met
LastEvent == IF events = <<>> THEN "none" ELSE events[Len(events)]

\* C34: the loop of run is left on end of input only at the second of two
\* EOFs that follow each other: a line that was entered or a Ctrl-C resets
\* the counter to 0, so that the counter is 0 or 1 whenever the loop waits
\* for input, and 1 only right after an EOF; a single EOF never ends the
\* session.
C34_ExitOnlyOnSecondConsecutiveEof ==
    /\ run_pc = "prompt" => eof_count = (IF LastEvent = "eof" THEN 1 ELSE 0)
    /\ (run_pc = "exited" /\ LastEvent = "eof") =>
          /\ Len(events) >= 2
          /\ events[Len(events) - 1] = "eof"
    /\ (Len(events) >= 2 /\ LastEvent = "eof" /\ events[Len(events) - 1] = "eof") =>
          run_pc = "exited"

\* the session ended on two EOFs in a row, after an EOF that a line followed
C34_Witness ==
    /\ run_pc = "exited"
    /\ Len(events) >= 4
    /\ LastEvent = "eof"
    /\ \E k \in 1..(Len(events) - 2) :
          events[k] = "eof" /\ events[k + 1] \in {"line", "ctrl_c", "line_ctrl_c"}

\* ------------------------------------------------------------------ C37
\* the name fails the validation
FailsValidation(name) ==
    \/ NoDotNoSlash(Chars[name])
    \/ HasSpace(Chars[name])
    \/ TooLong(Chars[name])
    \/ HasForbidden(Chars[name])

\* C37: a block that has a filename from the scanner keeps it as its target,
\* whatever the user message names; if that filename fails validation the
\* block yields no proposal, also when the user message names a valid file
\* and the response holds a single block.
C37_ExtractedNameBarsFallback ==
    scan_pc = "resolved" =>
        \A k \in DOMAIN parsed_blocks :
            parsed_blocks[k].filename # None =>
                /\ targets[k] = parsed_blocks[k].filename
                /\ FailsValidation(parsed_blocks[k].filename) =>
                      /\ \A q \in DOMAIN pending_proposals :
                            pending_proposals[q].file_path # parsed_blocks[k].filename
                      /\ Len(parsed_blocks) = 1 => pending_proposals = <<>>

\* a single block with code and the filename "my f.py" was resolved under a
\* user message that names main.py
C37_Witness ==
    /\ scan_pc = "resolved"
    /\ Len(parsed_blocks) = 1
    /\ parsed_blocks[1].filename = SPACED_NAME
    /\ parsed_blocks[1].code # ""
    /\ user_message.files # <<>>
    /\ user_message.files[1] = MAIN_PY
    /\ pending_proposals = <<>>

\* ------------------------------------------------------------------ C36
\* the inner loop stands at the start of a line that is a fence
FenceHere ==
    /\ scan_j = scan_start \/ Text[scan_j] = NL
    /\ Slice(Text, scan_j, scan_j + 3) = Fence

\* what follows the backquotes on the line at position j
TagAt(j) ==
    Strip(Slice(Text, j + 3,
                IF Find(Text, <<NL>>, j) = -1 THEN Len(Text) ELSE Find(Text, <<NL>>, j)))

\* C36: inside a markdown/md block the nesting counter starts at 0 and never
\* goes negative; a fence at a line start with a non-empty language tag
\* increments it, a bare fence decrements it when it is above 0, and the block
\* ends only at a bare fence met while the counter is exactly 0.
C36_CounterFollowsFences ==
    [][/\ (scan_pc = "outer" /\ scan_pc' = "inner") => scan_level' = 0
       /\ (scan_pc = "inner" /\ scan_j < Len(Text)) =>
             /\ scan_level' >= 0
             /\ (FenceHere /\ TagAt(scan_j) # <<>>) =>
                   scan_pc' = "inner" /\ scan_level' = scan_level + 1
             /\ (FenceHere /\ TagAt(scan_j) = <<>> /\ scan_level > 0) =>
                   scan_pc' = "inner" /\ scan_level' = scan_level - 1
             /\ ~FenceHere => scan_level' = scan_level
             /\ scan_pc' = "outer" =>
                   FenceHere /\ TagAt(scan_j) = <<>> /\ scan_level = 0]_vars

\* ------------------------------------------------------------------ C39
\* C39: parse_code_blocks terminates on every text: each pass of the outer
\* loop that does not leave it moves i forward, each pass of the inner loop
\* of a markdown block that does not leave it moves j forward, the inner loop
\* starts after i and the outer loop resumes after j, so that no position is
\* met twice and the function returns.
C39_ScanTerminates ==
    /\ [][/\ (scan_pc = "outer" /\ scan_pc' = "outer") => scan_i' > scan_i
          /\ (scan_pc = "outer" /\ scan_pc' = "inner") => scan_j' > scan_i
          /\ (scan_pc = "inner" /\ scan_pc' = "inner") => scan_j' > scan_j
          /\ (scan_pc = "inner" /\ scan_pc' = "outer") => scan_i' > scan_j]_vars
    /\ (scan_pc = "outer" ~> scan_pc = "done")

\* the scan of a text returned after it walked through a markdown block with
\* an inner block and went on with the outer loop
C39_Witness ==
    /\ scan_pc = "done"
    /\ Len(parsed_blocks) >= 2
    /\ parsed_blocks[1].language = "md"
    /\ Find(Text, <<NL>> \o PyFence, 0) # -1
    /\ scan_i >= Len(Text)

\* ------------------------------------------------------------------ C32
\* the response of one python block whose first line is "# main.py" and
\* whose body is print(1)
MainPyResponse == response = <<PythonFence, CommentLine, StatementLine, FenceLine>>

\* the length of the history when the last approval started
HistoryBeforeApproval ==
    last_approval.len_after - (IF last_approval.committed THEN 1 ELSE 0)

C38_UndoRestoresApprovedFiles ==
    [][(/\ UndoLastChange
        /\ last_approval.committed
        /\ Len(repo.history) = last_approval.len_after) =>
            \A p \in last_approval.written : fs'[p] = last_approval.fs_before[p]]_vars

====
